---- MODULE Spec2Model ----
(***************************************************************************)
(* A model of the indicator store (financial_data.py), the persistent      *)
(* indicator cache (stock_data_cache.py), the price resolver and the       *)
(* current-PE computation (stock_data_collector_demo.py,                   *)
(* pe_ratio_collector.py).                                                 *)
(*                                                                         *)
(* Python values: None is the record None; a value that may be None is     *)
(* either None or Some(v).  A DataFrame is a record of its rows.  A dict   *)
(* is a function whose DOMAIN is the set of its keys.  A str that the code *)
(* slices is a sequence of one-character strings.                          *)
(***************************************************************************)
EXTENDS Integers, Sequences, FiniteSets, TLC

VARIABLES data_cache, fetched_symbols, disk, fetches, env, prev, last

vars == <<data_cache, fetched_symbols, disk, fetches, env, prev, last>>

None == [none |-> TRUE]
Some(v) == [some |-> v]

\* The largest number of tables the stores of one run hold together.
MaxCached == 2
\* Closing prices are 1..MaxPrice.
MaxPrice == 2
\* The longest indicator series.
MaxLen == 3
\* Earnings per share are 0..MaxEps.
MaxEps == 2
\* Annual net profits are 0..MaxProfit.
MaxProfit == 2

(***************************************************************************)
(* The indicator store: class FinancialData, one instance per module.      *)
(***************************************************************************)

\* The module-level instances `stock_data = FinancialData()` that are called:
\* of stock_data_collector_demo, of pe_ratio_collector and of stock_data_cache
\* (the instance of main.py is never called).
Stores == {"collector", "pe", "cache"}
\* The instances whose module calls get_indicator_data.
ReaderStores == {"collector", "pe"}

\* Two listed symbols; the first is passed with and without its prefix.
Symbols == {"600519", "000001"}
Keys == {"600519", "sh600519", "000001"}
SymbolOf(k) == IF k = "sh600519" THEN "600519" ELSE k

\* What a caller may pass as `symbol`: a key, or the empty string.
SymbolArgs == Keys \cup {""}

\* Row labels of the report table (column '指标'): "profit" stands for
\* 归母净利润, "eps" for 基本每股收益, "roe" for 净资产收益率(ROE).
\* "kf_roe" for 净资产收益率_平均_扣除非经常损益, which no table below has.
IndicatorArgs == {"eps", "kf_roe"}

\* Report tables of the provider.  T2 comes without the '指标' column.
T1 == [hasLabel |-> TRUE,
       rows |-> << [label |-> "profit", value |-> 7], [label |-> "eps", value |-> 2] >>]
T2 == [hasLabel |-> FALSE,
       rows |-> << [label |-> "", value |-> 3], [label |-> "", value |-> 11] >>]
EmptyTable == [hasLabel |-> TRUE, rows |-> << >>]
Tables == {T1, T2}

\* ak.stock_financial_abstract(symbol): a table, an empty table, None, or an exception.
Fault == [fault |-> TRUE]
Responses == Tables \cup {EmptyTable, None, Fault}

EmptyDict == [k \in {} |-> None]

\* get_financial_data without the look into data_cache: every call fetches.
get_financial_data_refetch(cache, fetched, symbol, resp) ==
    IF symbol = ""
    THEN [ret |-> None, called |-> FALSE, cache |-> cache, fetched |-> fetched]
    ELSE IF resp = Fault \/ resp = None \/ resp.rows = << >>
    THEN [ret |-> None, called |-> TRUE, cache |-> cache, fetched |-> fetched]
    ELSE [ret |-> resp, called |-> TRUE,
          cache |-> (symbol :> resp) @@ cache,
          fetched |-> fetched \cup {symbol}]

\* FinancialData.get_financial_data on one instance's data_cache and
\* fetched_symbols: the value returned, whether the provider was called, and
\* the instance's fields afterwards.
get_financial_data(cache, fetched, symbol, resp) ==
    IF symbol = ""
    THEN [ret |-> None, called |-> FALSE, cache |-> cache, fetched |-> fetched]
    ELSE IF symbol \in DOMAIN cache
    THEN [ret |-> cache[symbol], called |-> FALSE, cache |-> cache, fetched |-> fetched]
    ELSE IF resp = Fault \/ resp = None \/ resp.rows = << >>
    THEN [ret |-> None, called |-> TRUE, cache |-> cache, fetched |-> fetched]
    ELSE [ret |-> resp, called |-> TRUE,
          cache |-> cache @@ (symbol :> resp),
          fetched |-> fetched \cup {symbol}]

\* The row index get_indicator_data selects (1-based; Python's row 0 is 1):
\* the last row whose label equals `indicator`, the first row when none does.
IndicatorRow(df, indicator) ==
    LET hits == {i \in 1..Len(df.rows) : df.rows[i].label = indicator}
    IN IF df.hasLabel /\ hits # {}
       THEN CHOOSE i \in hits : \A j \in hits : j <= i
       ELSE 1

\* FinancialData.get_indicator_data after get_financial_data returned df.
get_indicator_data(df, indicator) ==
    IF df = None THEN None ELSE Some(df.rows[IndicatorRow(df, indicator)])

\* The number of tables held by all instances together.
CachedCount == Cardinality({p \in Stores \X Keys : p[2] \in DOMAIN data_cache[p[1]]})

\* The provider is called only while the run's budget of tables lasts.
WithinBudget(st, symbol, resp) ==
    \/ resp \notin Tables
    \/ symbol = ""
    \/ symbol \in DOMAIN data_cache[st]
    \/ CachedCount < MaxCached

CountFetch(symbol, r) ==
    IF r.called /\ r.ret # None
    THEN [fetches EXCEPT ![SymbolOf(symbol)] = @ + 1]
    ELSE fetches

NoCall == [op |-> "none"]
\* Nothing of the environment (clock, inputs) is read.
NoEnv == [none |-> TRUE]

\* A cache file that does not exist.
Absent == [absent |-> TRUE]

StoreInit ==
    /\ data_cache = [st \in Stores |-> EmptyDict]
    /\ fetched_symbols = [st \in Stores |-> {}]
    /\ fetches = [s \in Symbols |-> 0]

Init ==
    /\ StoreInit
    /\ disk = [k \in Keys |-> Absent]
    /\ env = NoEnv
    /\ prev = NoCall
    /\ last = NoCall

\* A call of get_financial_data on the instance of module st.
GetFinancialData(st, symbol, resp) ==
    /\ WithinBudget(st, symbol, resp)
    /\ LET r == get_financial_data(data_cache[st], fetched_symbols[st], symbol, resp)
       IN /\ data_cache' = [data_cache EXCEPT ![st] = r.cache]
          /\ fetched_symbols' = [fetched_symbols EXCEPT ![st] = r.fetched]
          /\ fetches' = CountFetch(symbol, r)
          /\ last' = [op |-> "get_financial_data", store |-> st, symbol |-> symbol,
                      ret |-> r.ret, called |-> r.called]
    /\ UNCHANGED <<disk, env, prev>>

\* A call of get_indicator_data on the instance of module st.
GetIndicatorData(st, symbol, indicator, resp) ==
    /\ WithinBudget(st, symbol, resp)
    /\ LET r == get_financial_data(data_cache[st], fetched_symbols[st], symbol, resp)
       IN /\ data_cache' = [data_cache EXCEPT ![st] = r.cache]
          /\ fetched_symbols' = [fetched_symbols EXCEPT ![st] = r.fetched]
          /\ fetches' = CountFetch(symbol, r)
          /\ last' = [op |-> "get_indicator_data", store |-> st, symbol |-> symbol,
                      indicator |-> indicator, df |-> r.ret,
                      ret |-> get_indicator_data(r.ret, indicator), called |-> r.called]
    /\ UNCHANGED <<disk, env, prev>>

Next ==
    \E st \in Stores, symbol \in SymbolArgs, resp \in Responses :
        GetFinancialData(st, symbol, resp)

Spec == Init /\ [][Next]_vars

NextIndicator ==
    \E st \in ReaderStores, symbol \in SymbolArgs, indicator \in IndicatorArgs,
       resp \in Responses :
        GetIndicatorData(st, symbol, indicator, resp)

SpecIndicator == Init /\ [][NextIndicator]_vars

(***************************************************************************)
(* The persistent indicator cache: StockDataCache.get_stock_indicator over *)
(* the FinancialData instance of stock_data_cache.py.  disk[code] is the   *)
(* file stock_<code>_indicator_cache.pkl: Absent, or what was pickled and  *)
(* whether the file is younger than cache_expire_days.                     *)
(***************************************************************************)

\* The codes get_stock_indicator is called with.
CacheCodes == {"600519", "000001"}

_is_cache_valid(file) == file # Absent /\ file.fresh

\* get_stock_indicator(code, force_update=force); resp is the provider's
\* answer if it is asked, io tells whether opening the file for writing works.
GetStockIndicator(code, force, resp, io) ==
    IF ~force /\ _is_cache_valid(disk[code])
    THEN /\ last' = [op |-> "get_stock_indicator", code |-> code, force |-> force,
                     ret |-> disk[code].content, called |-> FALSE, fetched |-> None]
         /\ UNCHANGED <<data_cache, fetched_symbols, fetches, disk, env, prev>>
    ELSE /\ WithinBudget("cache", code, resp)
         /\ LET r == get_financial_data(data_cache["cache"], fetched_symbols["cache"],
                                        code, resp)
            IN /\ data_cache' = [data_cache EXCEPT !["cache"] = r.cache]
               /\ fetched_symbols' = [fetched_symbols EXCEPT !["cache"] = r.fetched]
               /\ fetches' = CountFetch(code, r)
               /\ IF io = "ok"
                  THEN /\ disk' = [disk EXCEPT ![code] = [content |-> r.ret, fresh |-> TRUE]]
                       /\ last' = [op |-> "get_stock_indicator", code |-> code,
                                   force |-> force, ret |-> r.ret,
                                   called |-> r.called, fetched |-> r.ret]
                  ELSE /\ disk' = disk
                       /\ last' = [op |-> "get_stock_indicator", code |-> code,
                                   force |-> force,
                                   ret |-> IF disk[code] # Absent
                                           THEN disk[code].content ELSE None,
                                   called |-> r.called, fetched |-> r.ret]
         /\ UNCHANGED <<env, prev>>

\* The file of code grows older than cache_expire_days.
Expire(code) ==
    /\ _is_cache_valid(disk[code])
    /\ disk' = [disk EXCEPT ![code].fresh = FALSE]
    /\ UNCHANGED <<data_cache, fetched_symbols, fetches, env, prev, last>>

NextCache ==
    \/ \E code \in CacheCodes, force \in BOOLEAN, resp \in Responses, io \in {"ok", "fault"} :
          GetStockIndicator(code, force, resp, io)
    \/ \E code \in CacheCodes : Expire(code)

SpecCache == Init /\ [][NextCache]_vars

(***************************************************************************)
(* C2: a provider response that is empty, or a provider fault, is not      *)
(* retained: after such a request neither data_cache nor the cache file    *)
(* holds an entry for the symbol, and the next request for the symbol      *)
(* calls the provider again.                                               *)
(***************************************************************************)
C2_FailedRequest ==
    last.op = "get_stock_indicator" /\ last.called /\ last.fetched = None

C2_NotRetained ==
    C2_FailedRequest
        => /\ last.code \notin DOMAIN data_cache["cache"]
           /\ disk[last.code] = Absent

C2_Step ==
    (/\ C2_FailedRequest
     /\ last' # last
     /\ last'.op = "get_stock_indicator"
     /\ last'.code = last.code)
        => last'.called

C2_EmptyNeverRetained == [](C2_NotRetained) /\ [][C2_Step]_vars

(***************************************************************************)
(* C3: every forced refresh (force_update=True) results in a provider call *)
(* for the symbol, whatever was requested before in the same process.      *)
(***************************************************************************)
C3_ForcedRefreshFetches ==
    (last.op = "get_stock_indicator" /\ last.force) => last.called

(***************************************************************************)
(* The price resolver: StockDataCollector.get_price and                    *)
(* PERatioCollector._get_price.  A date string is a sequence of            *)
(* characters; env.target_date is the date a run resolves.                 *)
(***************************************************************************)

DigitChars == <<"0", "1", "2", "3", "4", "5", "6", "7", "8", "9">>
IsDigit(c) == \E n \in 1..10 : DigitChars[n] = c
DigitValue(c) == (CHOOSE n \in 1..10 : DigitChars[n] = c) - 1

\* Python's str(n) of an int.
RECURSIVE StrNat(_)
StrNat(n) ==
    IF n < 10 THEN <<DigitChars[n + 1]>>
    ELSE StrNat(n \div 10) \o <<DigitChars[(n % 10) + 1]>>
str(n) == IF n < 0 THEN <<"-">> \o StrNat(-n) ELSE StrNat(n)

\* Python's int(s) of a string of digits.
RECURSIVE int(_)
int(s) ==
    IF Len(s) = 0 THEN 0
    ELSE int(SubSeq(s, 1, Len(s) - 1)) * 10 + DigitValue(s[Len(s)])

\* A number as w digits, the way the dates of the provider are written.
RECURSIVE ZeroPad(_, _)
ZeroPad(n, w) == IF w = 0 THEN << >> ELSE ZeroPad(n \div 10, w - 1) \o <<DigitChars[(n % 10) + 1]>>
DateStr(y, m, d) == ZeroPad(y, 4) \o ZeroPad(m, 2) \o ZeroPad(d, 2)

IsLeap(y) == (y % 4 = 0 /\ y % 100 # 0) \/ y % 400 = 0
DaysInMonth(y, m) ==
    IF m = 2 THEN (IF IsLeap(y) THEN 29 ELSE 28)
    ELSE IF m \in {4, 6, 9, 11} THEN 30 ELSE 31

\* The target dates resolved: every day of March and of December 2024.
PriceMonths == {3, 12}
TargetDates ==
    UNION {{DateStr(2024, m, d) : d \in 1..DaysInMonth(2024, m)} : m \in PriceMonths}

\* The adjust arguments get_price is called with.
Adjusts == {"", "hfq"}
PriceCode == "sh600519"

\* ak.stock_zh_a_daily / ak.stock_zh_a_hist: a frame of closes, an empty
\* frame, None, or an exception.
Prices == 1..MaxPrice
EmptyFrame == [closes |-> << >>]
Frames == {[closes |-> <<p>>] : p \in Prices} \cup {[closes |-> <<MaxPrice, 1>>]}
DailyResponses == Frames \cup {EmptyFrame, None, Fault}

HasData(df) == df # Fault /\ df # None /\ df.closes # << >>
LastClose(df) == df.closes[Len(df.closes)]
Kind(df) == IF df = Fault THEN "fault" ELSE IF HasData(df) THEN "data" ELSE "empty"

\* get_price, lines 302-307: the start of the first window.
get_price_start(target) ==
    LET day == int(SubSeq(target, 7, Len(target))) - 2
    IN IF day < 10
       THEN SubSeq(target, 1, Len(target) - 2) \o <<"0">> \o str(day)
       ELSE SubSeq(target, 1, Len(target) - 2) \o str(day)

\* _get_price, lines 186-188: the start of its window.
_get_price_start(target) ==
    LET day == int(SubSeq(target, 7, Len(target))) - 2
    IN SubSeq(target, 1, Len(target) - 2) \o str(day)

Query(start, end, adjust) == [start_date |-> start, end_date |-> end, adjust |-> adjust]

\* get_price with an exception of the provider left uncaught.
get_price_uncaught(target, adjust, r1, r2) ==
    LET startdate == get_price_start(target)
        q1 == Query(startdate, target, adjust)
        q2 == Query(SubSeq(startdate, 1, 6) \o <<"0", "1">>, target, adjust)
    IN IF r1 = Fault
       THEN [queries |-> <<q1>>, ret |-> None, raised |-> TRUE,
             first |-> "fault", second |-> "none"]
       ELSE IF HasData(r1)
       THEN [queries |-> <<q1>>, ret |-> Some(LastClose(r1)), raised |-> FALSE,
             first |-> "data", second |-> "none"]
       ELSE IF r2 = Fault
       THEN [queries |-> <<q1, q2>>, ret |-> None, raised |-> TRUE,
             first |-> "empty", second |-> "fault"]
       ELSE IF HasData(r2)
       THEN [queries |-> <<q1, q2>>, ret |-> Some(LastClose(r2)), raised |-> FALSE,
             first |-> "empty", second |-> "data"]
       ELSE [queries |-> <<q1, q2>>, ret |-> None, raised |-> FALSE,
             first |-> "empty", second |-> "empty"]

\* StockDataCollector.get_price(stock_code, target, adjust): r1 and r2 are the
\* provider's answers to the first and to the second query; the result is the
\* queries made, the value returned, whether the call raised, and the kind of
\* each answer used.
get_price(target, adjust, r1, r2) ==
    LET startdate == get_price_start(target)
        q1 == Query(startdate, target, adjust)
        q2 == Query(SubSeq(startdate, 1, 6) \o <<"0", "1">>, target, adjust)
    IN IF r1 = Fault
       THEN [queries |-> <<q1>>, ret |-> None, raised |-> FALSE,
             first |-> "fault", second |-> "none"]
       ELSE IF HasData(r1)
       THEN [queries |-> <<q1>>, ret |-> Some(LastClose(r1)), raised |-> FALSE,
             first |-> "data", second |-> "none"]
       ELSE IF r2 = Fault
       THEN [queries |-> <<q1, q2>>, ret |-> None, raised |-> FALSE,
             first |-> "empty", second |-> "fault"]
       ELSE IF HasData(r2)
       THEN [queries |-> <<q1, q2>>, ret |-> Some(LastClose(r2)), raised |-> FALSE,
             first |-> "empty", second |-> "data"]
       ELSE [queries |-> <<q1, q2>>, ret |-> None, raised |-> FALSE,
             first |-> "empty", second |-> "empty"]

\* PERatioCollector._get_price(stock_code, target): r1 answers
\* ak.stock_zh_a_daily, r2 answers ak.stock_zh_a_hist, both for the same window.
_get_price(target, r1, r2) ==
    LET startdate == _get_price_start(target)
        q == Query(startdate, target, "qfq")
    IN IF HasData(r1)
       THEN [queries |-> <<q>>, ret |-> Some(LastClose(r1)), raised |-> FALSE,
             first |-> "data", second |-> "none"]
       ELSE IF HasData(r2)
       THEN [queries |-> <<q, q>>, ret |-> Some(LastClose(r2)), raised |-> FALSE,
             first |-> Kind(r1), second |-> "data"]
       ELSE [queries |-> <<q, q>>, ret |-> None, raised |-> FALSE,
             first |-> Kind(r1), second |-> Kind(r2)]

InitPrice ==
    /\ StoreInit
    /\ disk = [k \in Keys |-> Absent]
    /\ env \in [target_date : TargetDates]
    /\ prev = NoCall
    /\ last = NoCall

\* What the next call sees of the call before it.
Earlier(call) ==
    IF call.op = "none" THEN NoCall
    ELSE [op |-> call.op, adjust |-> call.adjust, ret |-> call.ret]

\* stock_collect.get_price(PriceCode, env.target_date, adjust).  There is a second
\* answer only when a second query is made.
GetPrice(adjust, r1, r2) ==
    /\ (r1 = None \/ r1 = EmptyFrame) \/ r2 = None
    /\ LET r == get_price(env.target_date, adjust, r1, r2)
       IN last' = [op |-> "get_price", code |-> PriceCode, adjust |-> adjust,
                   queries |-> r.queries, ret |-> r.ret, raised |-> r.raised,
                   first |-> r.first, second |-> r.second]
    /\ prev' = Earlier(last)
    /\ UNCHANGED <<data_cache, fetched_symbols, disk, fetches, env>>

\* pe_collect._get_price(PriceCode, env.target_date).
GetPricePE(r1, r2) ==
    /\ ~HasData(r1) \/ r2 = None
    /\ LET r == _get_price(env.target_date, r1, r2)
       IN last' = [op |-> "_get_price", code |-> PriceCode, adjust |-> "qfq",
                   queries |-> r.queries, ret |-> r.ret, raised |-> r.raised,
                   first |-> r.first, second |-> r.second]
    /\ prev' = Earlier(last)
    /\ UNCHANGED <<data_cache, fetched_symbols, disk, fetches, env>>

NextPrice ==
    \/ \E adjust \in Adjusts, r1 \in DailyResponses, r2 \in DailyResponses :
          GetPrice(adjust, r1, r2)
    \/ \E r1 \in DailyResponses, r2 \in DailyResponses : GetPricePE(r1, r2)

SpecPrice == InitPrice /\ [][NextPrice]_vars

(***************************************************************************)
(* C6: get_price returns a price or None and never raises, whatever the    *)
(* provider does; when the first window is empty it queries exactly once   *)
(* more, for the window from the first day of the target date's month to   *)
(* the target date, and returns None when that window is empty too.        *)
(***************************************************************************)
C6_MonthStart == SubSeq(env.target_date, 1, 6) \o <<"0", "1">>

C6_PriceOrNone ==
    last.op = "get_price"
        => /\ ~last.raised
           /\ last.ret = None \/ \E p \in Prices : last.ret = Some(p)
           /\ Len(last.queries) = (IF last.first = "empty" THEN 2 ELSE 1)
           /\ last.first = "empty"
                => /\ last.queries[2] = Query(C6_MonthStart, env.target_date, last.adjust)
                   /\ last.second = "empty" => last.ret = None

\* The first window was empty and so was the second.
C6_Witness ==
    /\ last.op = "get_price"
    /\ last.first = "empty"
    /\ last.second = "empty"
    /\ Len(last.queries) = 2
    /\ last.ret = None

(***************************************************************************)
(* C7: the first window the resolver requests ends at the target date and  *)
(* starts at the calendar date two days earlier, written as a valid        *)
(* 8-character date, for every day of the month.                           *)
(***************************************************************************)
C7_DayBefore(t) ==
    IF t.d > 1 THEN [y |-> t.y, m |-> t.m, d |-> t.d - 1]
    ELSE IF t.m > 1 THEN [y |-> t.y, m |-> t.m - 1, d |-> DaysInMonth(t.y, t.m - 1)]
    ELSE [y |-> t.y - 1, m |-> 12, d |-> 31]

C7_TwoDaysEarlier(target) ==
    LET t == [y |-> int(SubSeq(target, 1, 4)), m |-> int(SubSeq(target, 5, 6)),
              d |-> int(SubSeq(target, 7, 8))]
        e == C7_DayBefore(C7_DayBefore(t))
    IN DateStr(e.y, e.m, e.d)

C7_FirstWindow ==
    last.op \in {"get_price", "_get_price"}
        => /\ last.queries[1].end_date = env.target_date
           /\ last.queries[1].start_date = C7_TwoDaysEarlier(env.target_date)

(***************************************************************************)
(* C8: a second call of get_price for the same (symbol, date, adjustment)  *)
(* returns the value of the first and makes no provider call.              *)
(***************************************************************************)
C8_SecondCallFromCache ==
    (last.op = "get_price" /\ prev.op = "get_price" /\ prev.adjust = last.adjust)
        => /\ last.ret = prev.ret
           /\ last.queries = << >>

(***************************************************************************)
(* The current PE: StockDataCollector.get_current_pe_ratio (the same code  *)
(* as PERatioCollector._calculate_pe_ratio_manually after its price        *)
(* lookup).  env holds what the call reads: the year of the clock, the     *)
(* EPS series get_history_eps returns (a list of (period, eps) pairs,      *)
(* latest period first as the columns of the report table are, or oldest   *)
(* first), the price passed in, and whether the numbers divide like        *)
(* numpy.float64 (x/0 is inf) or like float (x/0 raises).  Quotients are   *)
(* exact fractions.                                                        *)
(***************************************************************************)

RECURSIVE GCD(_, _)
GCD(a, b) == IF b = 0 THEN a ELSE GCD(b, a % b)
Abs(n) == IF n < 0 THEN -n ELSE n

Inf == [inf |-> TRUE]
ZeroDivisionError == [raised |-> "ZeroDivisionError"]

\* n / d for a positive n.
Quot(n, d, numpy) ==
    IF d = 0 THEN (IF numpy THEN Inf ELSE ZeroDivisionError)
    ELSE LET g == GCD(Abs(n), Abs(d))
         IN [num |-> (IF d < 0 THEN -n ELSE n) \div g, den |-> Abs(d) \div g]

\* The report periods of a series, latest first.
PeriodList ==
    << DateStr(2024, 12, 31), DateStr(2024, 9, 30), DateStr(2024, 6, 30),
       DateStr(2023, 12, 31), DateStr(2023, 9, 30), DateStr(2023, 6, 30) >>
NowYears == {2024, 2025}
EpsValues == 0..MaxEps

\* The series of the periods numbered in S with the values f, latest first.
RECURSIVE SeriesFrom(_, _, _)
SeriesFrom(i, S, f) ==
    IF i > Len(PeriodList) THEN << >>
    ELSE (IF i \in S THEN << <<PeriodList[i], f[i]>> >> ELSE << >>) \o SeriesFrom(i + 1, S, f)

Reverse(seq) == [i \in 1..Len(seq) |-> seq[Len(seq) + 1 - i]]

EpsSeries ==
    UNION {{SeriesFrom(1, S, f) : f \in [S -> EpsValues]}
             \cup {Reverse(SeriesFrom(1, S, f)) : f \in [S -> EpsValues]} :
           S \in {T \in SUBSET (1..Len(PeriodList)) : Cardinality(T) <= MaxLen}}

\* date[0:4] and date[4:6].
YearOf(date) == SubSeq(date, 1, 4)
MonthOf(date) == SubSeq(date, 5, 6)

\* The first of the indices in S, 0 when there is none (a for loop left by
\* break at its first hit).
FirstIndex(S) == IF S = {} THEN 0 ELSE CHOOSE i \in S : \A j \in S : i <= j

\* Lines 248-254 skipping the year of the first entry instead of the year of
\* the clock.
PriorEntryIndex_skipfirst(hist_eps, year) ==
    FirstIndex({i \in 1..Len(hist_eps) : YearOf(hist_eps[i][1]) # YearOf(hist_eps[1][1])})

\* Lines 248-254: the entry whose eps becomes last_year_eps, the first one
\* whose year is not the current year.
PriorEntryIndex(hist_eps, year) ==
    FirstIndex({i \in 1..Len(hist_eps) : YearOf(hist_eps[i][1]) # str(year)})

\* Lines 256-263: the entry subtracted for the TTM, the first one of another
\* year than the current whose month is that of the latest period.
SameQuarterIndex(hist_eps, year, quater) ==
    FirstIndex({i \in 1..Len(hist_eps) :
                  YearOf(hist_eps[i][1]) # str(year) /\ MonthOf(hist_eps[i][1]) = quater})

\* _get_quarter_from_date(date_str) of a date whose month is a number.
get_quarter_from_date(date_str) ==
    LET month == int(MonthOf(date_str))
    IN IF month <= 3 THEN 1
       ELSE IF month <= 6 THEN 2
       ELSE IF month <= 9 THEN 3
       ELSE 4

\* get_current_pe_ratio annualizing by the quarter of the latest period
\* (eps * 12 / (q * 3)) instead of by its month.
get_current_pe_ratio_by_quarter(hist_eps, current_price, year, numpy) ==
    IF hist_eps = << >> \/ current_price = None
    THEN None
    ELSE
    LET price == current_price.some
        last_eps == hist_eps[1]
        quater == MonthOf(last_eps[1])
        pe_d == Quot(price * get_quarter_from_date(last_eps[1]) * 3, last_eps[2] * 12, numpy)
        j == PriorEntryIndex(hist_eps, year)
        last_year_eps == IF j = 0 THEN 0 ELSE hist_eps[j][2]
        pe_j == IF j = 0 THEN pe_d ELSE Quot(price, last_year_eps, numpy)
        t == IF quater # <<"1", "2">> THEN SameQuarterIndex(hist_eps, year, quater) ELSE 0
        eps_TTM == last_year_eps - hist_eps[t][2] + last_eps[2]
        pe_TTM == IF t = 0 THEN pe_d ELSE Quot(price, eps_TTM, numpy)
    IN IF pe_d = ZeroDivisionError \/ pe_j = ZeroDivisionError
          \/ pe_TTM = ZeroDivisionError
       THEN None
       ELSE [dynamic |-> pe_d, static |-> pe_j, ttm |-> pe_TTM]

\* get_current_pe_ratio: None, or the list [pe_d, pe_j, pe_TTM].  An empty
\* series stands for both a missing one (None) and hist_eps[0] raising.
get_current_pe_ratio(hist_eps, current_price, year, numpy) ==
    IF hist_eps = << >> \/ current_price = None
    THEN None
    ELSE
    LET price == current_price.some
        last_eps == hist_eps[1]
        quater == MonthOf(last_eps[1])
        \* eps_d = eps * 1.0 / int(quater) * 12 ; pe_d = current_price / eps_d
        pe_d == Quot(price * int(quater), last_eps[2] * 12, numpy)
        j == PriorEntryIndex(hist_eps, year)
        last_year_eps == IF j = 0 THEN 0 ELSE hist_eps[j][2]
        pe_j == IF j = 0 THEN pe_d ELSE Quot(price, last_year_eps, numpy)
        t == IF quater # <<"1", "2">> THEN SameQuarterIndex(hist_eps, year, quater) ELSE 0
        eps_TTM == last_year_eps - hist_eps[t][2] + last_eps[2]
        \* pe_TTM = pe_j is assigned before pe_j is recomputed
        pe_TTM == IF t = 0 THEN pe_d ELSE Quot(price, eps_TTM, numpy)
    IN IF pe_d = ZeroDivisionError \/ pe_j = ZeroDivisionError
          \/ pe_TTM = ZeroDivisionError
       THEN None
       ELSE [dynamic |-> pe_d, static |-> pe_j, ttm |-> pe_TTM]

PriceArgs == {None} \cup {Some(p) : p \in Prices}

InitPE ==
    /\ StoreInit
    /\ disk = [k \in Keys |-> Absent]
    /\ env \in [now_year : NowYears, hist_eps : EpsSeries,
                current_price : PriceArgs, numpy : BOOLEAN]
    /\ prev = NoCall
    /\ last = NoCall

\* stock_collect.get_current_pe_ratio(stock_code, current_price).
GetCurrentPE ==
    /\ last' = [op |-> "get_current_pe_ratio",
                ret |-> get_current_pe_ratio(env.hist_eps, env.current_price,
                                             env.now_year, env.numpy)]
    /\ UNCHANGED <<data_cache, fetched_symbols, disk, fetches, env, prev>>

NextPE == GetCurrentPE

SpecPE == InitPE /\ [][NextPE]_vars

\* The entry of the greatest period in the series read, and the first one.
LatestEntry ==
    env.hist_eps[CHOOSE i \in 1..Len(env.hist_eps) :
                    \A k \in 1..Len(env.hist_eps) :
                        int(env.hist_eps[i][1]) >= int(env.hist_eps[k][1])]
FirstEntry == env.hist_eps[1]
FullYear == <<"1", "2">>
ReturnedTriple == last.op = "get_current_pe_ratio" /\ last.ret # None

C10_Has(y, mm) ==
    \E i \in 1..Len(env.hist_eps) :
        YearOf(env.hist_eps[i][1]) = str(y) /\ MonthOf(env.hist_eps[i][1]) = mm

C10_EpsOf(y, mm) ==
    env.hist_eps[FirstIndex({i \in 1..Len(env.hist_eps) :
                               /\ YearOf(env.hist_eps[i][1]) = str(y)
                               /\ MonthOf(env.hist_eps[i][1]) = mm})][2]

C10_PriorYear == int(YearOf(LatestEntry[1])) - 1

C10_EpsTTM ==
    C10_EpsOf(C10_PriorYear, FullYear) - C10_EpsOf(C10_PriorYear, MonthOf(LatestEntry[1]))
        + LatestEntry[2]

C10_TTMFromPriorYear ==
    (/\ ReturnedTriple
     /\ MonthOf(LatestEntry[1]) # FullYear
     /\ C10_Has(C10_PriorYear, FullYear)
     /\ C10_Has(C10_PriorYear, MonthOf(LatestEntry[1]))
     /\ C10_EpsTTM # 0)
        => last.ret.ttm = Quot(env.current_price.some, C10_EpsTTM, env.numpy)

(***************************************************************************)
(* C1: once get_financial_data has returned a table for a symbol on one    *)
(* instance, the instance keeps that table under the symbol, and every     *)
(* later call on that instance for that symbol returns that table without  *)
(* a provider call, whatever is requested in between.                      *)
(***************************************************************************)
C1_Retained ==
    (last.op = "get_financial_data" /\ last.ret # None)
        => /\ last.symbol \in DOMAIN data_cache[last.store]
           /\ data_cache[last.store][last.symbol] = last.ret

C1_Step ==
    \A st \in Stores : \A k \in DOMAIN data_cache[st] :
        /\ k \in DOMAIN data_cache'[st]
        /\ data_cache'[st][k] = data_cache[st][k]
        /\ (last'.op = "get_financial_data" /\ last'.store = st /\ last'.symbol = k)
              => (last'.ret = data_cache[st][k] /\ ~last'.called)

C1_CachedTableReturned == [](C1_Retained) /\ [][C1_Step]_vars

\* A call answered from data_cache while the instance holds another symbol too.
C1_Witness ==
    /\ last.op = "get_financial_data"
    /\ ~last.called
    /\ last.ret \in Tables
    /\ \E k \in DOMAIN data_cache[last.store] : SymbolOf(k) # SymbolOf(last.symbol)

(***************************************************************************)
(* C4: in one run the provider's report table is fetched successfully at   *)
(* most once per symbol, over all instances and both forms of the symbol   *)
(* (with and without exchange prefix).                                     *)
(***************************************************************************)
C4_FetchedOncePerSymbol == \A s \in Symbols : fetches[s] <= 1

(***************************************************************************)
(* C5: get_indicator_data for a label that no row of the table carries     *)
(* does not return the values of another indicator.                        *)
(***************************************************************************)
C5_AbsentIndicatorIsEmpty ==
    (/\ last.op = "get_indicator_data"
     /\ last.df # None
     /\ \A i \in 1..Len(last.df.rows) : last.df.rows[i].label # last.indicator)
        => /\ last.ret # None
           /\ \A i \in 1..Len(last.df.rows) : last.ret # Some(last.df.rows[i])

(***************************************************************************)
(* C11: when the series has a full-year (month 12) report of a year before *)
(* the current year, static PE = price / EPS of the most recent such       *)
(* report, wherever that EPS is not zero.                                  *)
(***************************************************************************)
C11_PriorFullYears ==
    {i \in 1..Len(env.hist_eps) :
        /\ MonthOf(env.hist_eps[i][1]) = FullYear
        /\ int(YearOf(env.hist_eps[i][1])) < env.now_year}

C11_PriorFullYearEps ==
    env.hist_eps[CHOOSE i \in C11_PriorFullYears :
                    \A k \in C11_PriorFullYears :
                        int(env.hist_eps[i][1]) >= int(env.hist_eps[k][1])][2]

C11_StaticFromFullYear ==
    (ReturnedTriple /\ C11_PriorFullYears # {} /\ C11_PriorFullYearEps # 0)
        => last.ret.static = Quot(env.current_price.some, C11_PriorFullYearEps, env.numpy)

(***************************************************************************)
(* Historical PE: StockDataCollector.get_historical_pe_ratios, keyed by    *)
(* year, and PERatioCollector.get_historical_pe_ratios, keyed by period.   *)
(* env holds the EPS series (an eps is None or a number, negative ones     *)
(* included), what the price lookup returns for each period, and how the   *)
(* numbers divide.                                                         *)
(***************************************************************************)
HistPeriodList == << DateStr(2024, 12, 31), DateStr(2024, 6, 30), DateStr(2023, 12, 31) >>
HistPeriods == {HistPeriodList[i] : i \in 1..Len(HistPeriodList)}
HistEpsValues == {None} \cup {Some(e) : e \in (-1)..MaxEps}

RECURSIVE HistSeriesFrom(_, _, _)
HistSeriesFrom(i, S, f) ==
    IF i > Len(HistPeriodList) THEN << >>
    ELSE (IF i \in S THEN << <<HistPeriodList[i], f[i]>> >> ELSE << >>)
            \o HistSeriesFrom(i + 1, S, f)

HistSeries ==
    UNION {{HistSeriesFrom(1, S, f) : f \in [S -> HistEpsValues]}
             \cup {Reverse(HistSeriesFrom(1, S, f)) : f \in [S -> HistEpsValues]} :
           S \in SUBSET (1..Len(HistPeriodList))}

\* The for loop of lines 196-206 from entry i on; byYear tells the key:
\* date[0:4] in StockDataCollector, date in PERatioCollector.
RECURSIVE historical_pe_loop(_, _, _, _, _, _, _)
historical_pe_loop(hist_eps, prices, numpy, byYear, i, pe_result, price_result) ==
    IF i > Len(hist_eps)
    THEN [pe |-> pe_result, price |-> price_result, raised |-> FALSE]
    ELSE
    LET date == hist_eps[i][1]
        eps == hist_eps[i][2]
        price == prices[date]
        key == IF byYear THEN YearOf(date) ELSE date
    IN IF MonthOf(date) = <<"1", "2">> /\ price # None /\ eps # None
       THEN LET pe_ratio == Quot(price.some, eps.some, numpy)
            IN IF pe_ratio = ZeroDivisionError
               THEN [pe |-> pe_result, price |-> price_result, raised |-> TRUE]
               ELSE historical_pe_loop(hist_eps, prices, numpy, byYear, i + 1,
                                       (key :> pe_ratio) @@ pe_result,
                                       (key :> price.some) @@ price_result)
       ELSE historical_pe_loop(hist_eps, prices, numpy, byYear, i + 1,
                               pe_result, price_result)

\* StockDataCollector.get_historical_pe_ratios: (pe_result, price_result),
\* or {} from the except clause.
get_historical_pe_ratios(hist_eps, prices, numpy) ==
    LET r == historical_pe_loop(hist_eps, prices, numpy, TRUE, 1, EmptyDict, EmptyDict)
    IN IF r.raised THEN EmptyDict ELSE [pe |-> r.pe, price |-> r.price]

\* PERatioCollector.get_historical_pe_ratios: result, or {} from the except
\* clause.
pe_get_historical_pe_ratios(hist_eps, prices, numpy) ==
    LET r == historical_pe_loop(hist_eps, prices, numpy, FALSE, 1, EmptyDict, EmptyDict)
    IN IF r.raised THEN EmptyDict ELSE r.pe

InitHist ==
    /\ StoreInit
    /\ disk = [k \in Keys |-> Absent]
    /\ env \in [hist_eps : HistSeries, prices : [HistPeriods -> PriceArgs],
                numpy : BOOLEAN]
    /\ prev = NoCall
    /\ last = NoCall

\* stock_collect.get_historical_pe_ratios(stock_code, years).
GetHistoricalPE ==
    /\ last' = [op |-> "get_historical_pe_ratios",
                ret |-> get_historical_pe_ratios(env.hist_eps, env.prices, env.numpy)]
    /\ UNCHANGED <<data_cache, fetched_symbols, disk, fetches, env, prev>>

\* pe_collector.get_historical_pe_ratios(stock_code, years).
GetHistoricalPE_PE ==
    /\ last' = [op |-> "pe_get_historical_pe_ratios",
                ret |-> pe_get_historical_pe_ratios(env.hist_eps, env.prices, env.numpy)]
    /\ UNCHANGED <<data_cache, fetched_symbols, disk, fetches, env, prev>>

NextHist == GetHistoricalPE \/ GetHistoricalPE_PE

SpecHist == InitHist /\ [][NextHist]_vars

\* The series entries that are annual, with a known eps and a price.
AnnualEntries ==
    {i \in 1..Len(env.hist_eps) :
        /\ MonthOf(env.hist_eps[i][1]) = FullYear
        /\ env.hist_eps[i][2] # None
        /\ env.prices[env.hist_eps[i][1]] # None}

(***************************************************************************)
(* C12: get_historical_pe_ratios (of either class) has an entry exactly    *)
(* for the annual periods of the series whose EPS is known and whose price *)
(* resolves, and the entry is price / EPS.                                 *)
(***************************************************************************)
C12_Entries(dict, byYear) ==
    /\ DOMAIN dict = {(IF byYear THEN YearOf(env.hist_eps[i][1]) ELSE env.hist_eps[i][1]) :
                         i \in AnnualEntries}
    /\ \A i \in AnnualEntries :
         dict[IF byYear THEN YearOf(env.hist_eps[i][1]) ELSE env.hist_eps[i][1]]
            = Quot(env.prices[env.hist_eps[i][1]].some, env.hist_eps[i][2].some, env.numpy)

C12_AnnualEntriesOnly ==
    /\ last.op = "get_historical_pe_ratios"
         => (last.ret # EmptyDict /\ C12_Entries(last.ret.pe, TRUE))
              \/ (last.ret = EmptyDict /\ AnnualEntries = {})
    /\ last.op = "pe_get_historical_pe_ratios" => C12_Entries(last.ret, FALSE)

(***************************************************************************)
(* PEG: PERatioCollector.get_historical_peg.  env holds the net-profit     *)
(* series read, the historical PE passed in (keyed by period), and how the *)
(* numbers divide.  The function has no try block: an exception leaves it. *)
(***************************************************************************)
NaN == [nan |-> TRUE]
TypeError == [raised |-> "TypeError"]
IndexError == [raised |-> "IndexError"]
Raised(v) == v \in {ZeroDivisionError, TypeError, IndexError}

\* a / b for fractions, inf and nan; Inf stands for either sign.
Div(a, b, numpy) ==
    IF a = NaN \/ b = NaN THEN NaN
    ELSE IF b = Inf THEN (IF a = Inf THEN NaN ELSE [num |-> 0, den |-> 1])
    ELSE IF a = Inf THEN Inf
    ELSE IF b.num = 0
         THEN (IF ~numpy THEN ZeroDivisionError ELSE IF a.num = 0 THEN NaN ELSE Inf)
    ELSE LET n == a.num * b.den
             d == a.den * b.num
             g == GCD(Abs(n), Abs(d))
         IN [num |-> (IF d < 0 THEN -n ELSE n) \div g, den |-> Abs(d) \div g]

Frac(n) == [num |-> n, den |-> 1]

ProfitPeriodList ==
    << DateStr(2024, 12, 31), DateStr(2024, 6, 30), DateStr(2023, 12, 31),
       DateStr(2022, 12, 31) >>
ProfitValues == {None} \cup {Some(v) : v \in 0..MaxProfit}

RECURSIVE ProfitSeriesFrom(_, _, _)
ProfitSeriesFrom(i, S, f) ==
    IF i > Len(ProfitPeriodList) THEN << >>
    ELSE (IF i \in S THEN << <<ProfitPeriodList[i], f[i]>> >> ELSE << >>)
            \o ProfitSeriesFrom(i + 1, S, f)

ProfitSeries ==
    UNION {{ProfitSeriesFrom(1, S, f) : f \in [S -> ProfitValues]}
             \cup {Reverse(ProfitSeriesFrom(1, S, f)) : f \in [S -> ProfitValues]} :
           S \in SUBSET (1..Len(ProfitPeriodList))}

AnnualPeriods ==
    {ProfitPeriodList[i] : i \in {k \in 1..Len(ProfitPeriodList) :
                                     MonthOf(ProfitPeriodList[k]) = <<"1", "2">>}}
PEValues == {[num |-> 2, den |-> 1], [num |-> -3, den |-> 2]}
HistoricalPEs == UNION {[K -> PEValues] : K \in SUBSET AnnualPeriods}

\* Lines 282-288: the (year, profit) pairs of the month-12 entries, sorted by
\* year.
RECURSIVE SortByYear(_)
SortByYear(entries) ==
    IF entries = {} THEN << >>
    ELSE LET e == CHOOSE x \in entries : \A y \in entries : int(x[1]) <= int(y[1])
         IN <<e>> \o SortByYear(entries \ {e})

profit_year(profit_hist) ==
    SortByYear({<<YearOf(profit_hist[i][1]), profit_hist[i][2]>> :
                  i \in {k \in 1..Len(profit_hist) : MonthOf(profit_hist[k][1]) = <<"1", "2">>}})

\* Line 296: r = (p - last_p) / last_p * 100.
GrowthOf(p, last_p, numpy) ==
    IF p = None \/ last_p = None THEN TypeError
    ELSE LET q == Div(Frac(p.some - last_p.some), Frac(last_p.some), numpy)
         IN IF q = ZeroDivisionError \/ q = NaN \/ q = Inf THEN q
            ELSE Div(Frac(q.num * 100), Frac(q.den), numpy)

\* A dict as a value that can be told from None and from an exception.
Dict(d) == [dict |-> d]

\* Lines 290-298: profit_ratio, or the exception that leaves the loop.
RECURSIVE profit_ratio_loop(_, _, _, _)
profit_ratio_loop(py, numpy, k, profit_ratio) ==
    IF k > Len(py) THEN Dict(profit_ratio)
    ELSE LET r == GrowthOf(py[k][2], py[k - 1][2], numpy)
         IN IF Raised(r) THEN r
            ELSE profit_ratio_loop(py, numpy, k + 1, (py[k][1] :> r) @@ profit_ratio)

\* Lines 302-309 over the keys not yet visited.
RECURSIVE peg_loop(_, _, _, _, _)
peg_loop(historical_pe, profit_ratio, numpy, keys, peg_history) ==
    IF keys = {} THEN Dict(peg_history)
    ELSE LET key == CHOOSE x \in keys : \A y \in keys : int(x) <= int(y)
             year == YearOf(key)
         IN IF year \in DOMAIN profit_ratio
            THEN LET peg == Div(historical_pe[key], profit_ratio[year], numpy)
                 IN IF Raised(peg) THEN peg
                    ELSE peg_loop(historical_pe, profit_ratio, numpy, keys \ {key},
                                  (year :> peg) @@ peg_history)
            ELSE peg_loop(historical_pe, profit_ratio, numpy, keys \ {key}, peg_history)

\* get_historical_peg: None, the dict peg_history, or the exception raised.
get_historical_peg(profit_hist, historical_pe, numpy) ==
    IF Len(profit_hist) = 0 THEN None
    ELSE LET py == profit_year(profit_hist)
         IN IF Len(py) = 0 THEN IndexError
            ELSE LET profit_ratio == profit_ratio_loop(py, numpy, 2, EmptyDict)
                 IN IF Raised(profit_ratio) THEN profit_ratio
                    ELSE peg_loop(historical_pe, profit_ratio.dict, numpy,
                                  DOMAIN historical_pe, EmptyDict)

InitPEG ==
    /\ StoreInit
    /\ disk = [k \in Keys |-> Absent]
    /\ env \in [profit_hist : ProfitSeries, historical_pe : HistoricalPEs,
                numpy : BOOLEAN]
    /\ prev = NoCall
    /\ last = NoCall

\* pe_collector.get_historical_peg(full_stock_code, historical_pe, years=5).
GetHistoricalPEG ==
    /\ last' = [op |-> "get_historical_peg",
                ret |-> get_historical_peg(env.profit_hist, env.historical_pe, env.numpy)]
    /\ UNCHANGED <<data_cache, fetched_symbols, disk, fetches, env, prev>>

NextPEG == GetHistoricalPEG

SpecPEG == InitPEG /\ [][NextPEG]_vars

(***************************************************************************)
(* C13: get_historical_peg returns without a fault, with an entry exactly  *)
(* for the years that have a historical PE, an annual profit for the year  *)
(* and for the calendar year before it, and a growth                       *)
(* (profit[year] - profit[year-1]) / profit[year-1] * 100 that is defined  *)
(* and not zero; the entry is historical_pe[year] / growth[year].          *)
(***************************************************************************)
C13_AnnualProfit(y) ==
    LET hits == {i \in 1..Len(env.profit_hist) :
                    env.profit_hist[i][1] = str(y) \o <<"1", "2", "3", "1">>}
    IN IF hits = {} THEN None ELSE env.profit_hist[CHOOSE i \in hits : TRUE][2]

C13_HasGrowth(y) ==
    /\ C13_AnnualProfit(y) # None
    /\ C13_AnnualProfit(y - 1) # None
    /\ C13_AnnualProfit(y - 1).some # 0
    /\ C13_AnnualProfit(y).some # C13_AnnualProfit(y - 1).some

C13_Growth(y) ==
    Div(Frac((C13_AnnualProfit(y).some - C13_AnnualProfit(y - 1).some) * 100),
        Frac(C13_AnnualProfit(y - 1).some), FALSE)

C13_Years ==
    {int(YearOf(k)) : k \in {x \in DOMAIN env.historical_pe : C13_HasGrowth(int(YearOf(x)))}}

C13_PegFromConsecutiveYears ==
    (last.op = "get_historical_peg" /\ env.profit_hist # << >>)
        => /\ ~Raised(last.ret)
           /\ last.ret # None
           /\ DOMAIN last.ret.dict = {str(y) : y \in C13_Years}
           /\ \A k \in DOMAIN env.historical_pe :
                 C13_HasGrowth(int(YearOf(k)))
                    => last.ret.dict[YearOf(k)]
                         = Div(env.historical_pe[k], C13_Growth(int(YearOf(k))), FALSE)

(***************************************************************************)
(* C14: a call of get_current_pe_ratio with a price and a non-empty EPS    *)
(* series returns its triple, and no metric of the triple is infinite; a   *)
(* zero divisor only voids the metric it belongs to.                       *)
(***************************************************************************)
C14_ZeroDivisorGuarded ==
    (/\ last.op = "get_current_pe_ratio"
     /\ env.hist_eps # << >>
     /\ env.current_price # None)
        => /\ last.ret # None
           /\ last.ret.dynamic # Inf
           /\ last.ret.static # Inf
           /\ last.ret.ttm # Inf

(***************************************************************************)
(* The ROE profile: StockDataCollector.get_ROE.  env holds the series read *)
(* for the indicator: any list of up to MaxLen (period, value) pairs, in   *)
(* any order, a value being None where the report has none.                *)
(***************************************************************************)
ROEPeriods ==
    {DateStr(2024, 3, 31), DateStr(2024, 12, 31), DateStr(2023, 6, 30), DateStr(2023, 12, 31)}
ROEValues == {None, Some(1), Some(2)}
ROEEntries == {<<d, v>> : d \in ROEPeriods, v \in ROEValues}
ROESeries == UNION {[1..n -> ROEEntries] : n \in 0..MaxLen}

EmptyRow == <<None, None, None, None>>

\* Line 357 with the comparison left out: every entry starts a new row.
NewYear_always(year, last_year) == TRUE

\* Line 357: if year != last_year.
NewYear(year, last_year) == last_year = None \/ last_year.some # year

\* Lines 361-368: the slot of a month, 0 for a month that has none.
SlotOf(month) ==
    IF month = <<"0", "3">> THEN 1
    ELSE IF month = <<"0", "6">> THEN 2
    ELSE IF month = <<"0", "9">> THEN 3
    ELSE IF month = <<"1", "2">> THEN 4
    ELSE 0

\* The for loop of lines 355-368 from entry i on.
RECURSIVE get_ROE_loop(_, _, _, _)
get_ROE_loop(kf_roe, i, last_year, history_roe) ==
    IF i > Len(kf_roe) THEN history_roe
    ELSE
    LET date == kf_roe[i][1]
        year == YearOf(date)
        fresh == NewYear(year, last_year)
        row == IF fresh THEN EmptyRow ELSE history_roe[year]
        slot == SlotOf(MonthOf(date))
        filled == IF slot = 0 THEN row ELSE [row EXCEPT ![slot] = kf_roe[i][2]]
    IN get_ROE_loop(kf_roe, i + 1, Some(year), (year :> filled) @@ history_roe)

get_ROE(kf_roe) == get_ROE_loop(kf_roe, 1, None, EmptyDict)

InitROE ==
    /\ StoreInit
    /\ disk = [k \in Keys |-> Absent]
    /\ env \in [kf_roe : ROESeries]
    /\ prev = NoCall
    /\ last = NoCall

\* self.get_ROE(stock_code, stock_name, indicator, years).
GetROE ==
    /\ last' = [op |-> "get_ROE", ret |-> Dict(get_ROE(env.kf_roe))]
    /\ UNCHANGED <<data_cache, fetched_symbols, disk, fetches, env, prev>>

NextROE == GetROE

SpecROE == InitROE /\ [][NextROE]_vars

\* No period is listed twice, and the entries of one year follow each other.
NoPeriodTwice ==
    \A i, k \in 1..Len(env.kf_roe) : env.kf_roe[i][1] = env.kf_roe[k][1] => i = k
YearsContiguous ==
    \A i, k \in 1..Len(env.kf_roe) :
        (i < k /\ YearOf(env.kf_roe[i][1]) = YearOf(env.kf_roe[k][1]))
            => \A m \in i..k : YearOf(env.kf_roe[m][1]) = YearOf(env.kf_roe[i][1])

\* Every entry of the series is found in its slot of the profile returned.
C15_AllPlaced ==
    \A i \in 1..Len(env.kf_roe) :
        /\ YearOf(env.kf_roe[i][1]) \in DOMAIN last.ret.dict
        /\ last.ret.dict[YearOf(env.kf_roe[i][1])][SlotOf(MonthOf(env.kf_roe[i][1]))]
              = env.kf_roe[i][2]

(***************************************************************************)
(* C15 as claimed: whatever the order of the series, every (period, value) *)
(* is in profile[year][quarter-1] when get_ROE returns: no slot was reset  *)
(* or overwritten by a later entry.                                        *)
(***************************************************************************)
C15_SlotsKeptInEveryOrder ==
    (last.op = "get_ROE" /\ NoPeriodTwice) => C15_AllPlaced

(***************************************************************************)
(* C15 amended: when the series lists no period twice and lists the        *)
(* entries of one year next to each other, every (period, value) is in     *)
(* profile[year][quarter-1] when get_ROE returns.                          *)
(***************************************************************************)
C15_SlotsKeptWhenYearsContiguous ==
    (last.op = "get_ROE" /\ NoPeriodTwice /\ YearsContiguous) => C15_AllPlaced

\* Two reports of one year and one of another, all with a value, are in the
\* profile returned.
C15_Witness ==
    /\ last.op = "get_ROE"
    /\ NoPeriodTwice
    /\ YearsContiguous
    /\ Len(env.kf_roe) = 3
    /\ \A i \in 1..3 : env.kf_roe[i][2] # None
    /\ YearOf(env.kf_roe[1][1]) = YearOf(env.kf_roe[2][1])
    /\ YearOf(env.kf_roe[3][1]) # YearOf(env.kf_roe[1][1])
    /\ C15_AllPlaced

(***************************************************************************)
(* Screening, valuation percentile: StockAnalyzer.cal_pe.  env holds the   *)
(* evaluation year and the stored historical PE: a dict from year to PE    *)
(* in ascending year order (analyze_stock sorts it before it is saved), as *)
(* the list of its items.                                                  *)
(***************************************************************************)
PEYears == 2020..2023
EvalYears == {2022, 2023}
StoredPEs == {-10, 10, 20, 30}

RECURSIVE ItemsFrom(_, _, _)
ItemsFrom(y, S, f) ==
    IF y \notin PEYears THEN << >>
    ELSE (IF y \in S THEN << <<str(y), f[y]>> >> ELSE << >>) \o ItemsFrom(y + 1, S, f)

PEHistories ==
    UNION {{ItemsFrom(2020, S, f) : f \in [S -> StoredPEs]} : S \in SUBSET PEYears}

\* historical_pe.get(key): the value, or None.
DictGet(items, key) ==
    LET hits == {i \in 1..Len(items) : items[i][1] = key}
    IN IF hits = {} THEN None ELSE Some(items[CHOOSE i \in hits : TRUE][2])

\* Lines 76-84: the items the for loop visits before its break.
Visited(items, YEAR) ==
    LET later == {i \in 1..Len(items) : int(items[i][1]) > YEAR}
    IN IF later = {} THEN 1..Len(items)
       ELSE 1..((CHOOSE i \in later : \A k \in later : i <= k) - 1)

\* Lines 87-89 without the shortcut for the lowest PE of more than 3 years.
Percentile_plain(rank, valid_pe_num) == Quot(rank * 100, valid_pe_num, FALSE)

\* Lines 87-89 with the shortcut taken from 3 counted years on.
Percentile_from3(rank, valid_pe_num) ==
    IF rank = 1 /\ valid_pe_num > 2 THEN Frac(1)
    ELSE Quot(rank * 100, valid_pe_num, FALSE)

\* Lines 87-89: the value returned after the loop.
Percentile(rank, valid_pe_num) ==
    IF rank = 1 /\ valid_pe_num > 3 THEN Frac(1)
    ELSE Quot(rank * 100, valid_pe_num, FALSE)

\* cal_pe(YEAR, pe_data) with pe_data['historical_pe'] = items.
cal_pe(YEAR, items) ==
    IF Len(items) < 2 THEN Frac(100)
    ELSE LET this_pe == DictGet(items, str(YEAR))
         IN IF this_pe = None THEN Frac(100)
            ELSE IF this_pe.some < 0 THEN Frac(100)
            ELSE LET seen == Visited(items, YEAR)
                     valid_pe_num == Cardinality({i \in seen : items[i][2] > 0})
                     rank == 1 + Cardinality({i \in seen : items[i][2] > 0
                                                  /\ items[i][2] < this_pe.some})
                 IN Percentile(rank, valid_pe_num)

InitCalPE ==
    /\ StoreInit
    /\ disk = [k \in Keys |-> Absent]
    /\ env \in [YEAR : EvalYears, historical_pe : PEHistories]
    /\ prev = NoCall
    /\ last = NoCall

\* r = self.cal_pe(YEAR, pe_data).
CalPE ==
    /\ last' = [op |-> "cal_pe", ret |-> cal_pe(env.YEAR, env.historical_pe)]
    /\ UNCHANGED <<data_cache, fetched_symbols, disk, fetches, env, prev>>

NextCalPE == CalPE

SpecCalPE == InitCalPE /\ [][NextCalPE]_vars

\* a > b for fractions with positive denominators.
Greater(a, b) == a.num * b.den > b.num * a.den

\* The years at or before the evaluation year with PE > 0, the rank of the
\* evaluation year's PE among them, and that PE.
C16_Positive ==
    {i \in 1..Len(env.historical_pe) :
        int(env.historical_pe[i][1]) <= env.YEAR /\ env.historical_pe[i][2] > 0}
C16_ThisPE == DictGet(env.historical_pe, str(env.YEAR))
C16_Rank ==
    1 + Cardinality({i \in C16_Positive : env.historical_pe[i][2] < C16_ThisPE.some})
C16_Ranked ==
    /\ last.op = "cal_pe"
    /\ Len(env.historical_pe) >= 2
    /\ C16_ThisPE # None
    /\ C16_ThisPE.some > 0

AttributeError == [raised |-> "AttributeError"]
Failure(v) == v \in {ZeroDivisionError, TypeError, IndexError, AttributeError}

ProfileYears == 2019..2023
ClockYears == {2023, 2024}
\* The rows of a stored year: Q2 and Q4 slots, a slot being None, nan or a
\* number.
StoredRows ==
    {<<None, q2, None, q4>> : q2 \in {None, Some(10), Some(14)}, q4 \in {None}}
      \cup {<<None, q2, None, Some(12)>> : q2 \in {None, NaN, Some(6), Some(10), Some(14)}}
StoredProfiles == UNION {[{str(y) : y \in Y} -> StoredRows] : Y \in SUBSET ProfileYears}

RECURSIVE SumOf(_)
SumOf(seq) == IF seq = << >> THEN 0 ELSE Head(seq) + SumOf(Tail(seq))
SquaresOf(seq) == [i \in 1..Len(seq) |-> seq[i] * seq[i]]

\* np.mean(roe_list) < 10 and np.std(roe_list) > 2 (population deviation),
\* without rounding.
MeanBelow(roe_list, bound) == SumOf(roe_list) < bound * Len(roe_list)
StdAbove(roe_list, bound) ==
    Len(roe_list) * SumOf(SquaresOf(roe_list)) - SumOf(roe_list) * SumOf(roe_list)
        > bound * bound * Len(roe_list) * Len(roe_list)

\* Lines 124-132: the loop over range(5) from i on, with slot roe[slot - 1]
\* read; roe_list, or the exception raised.
RECURSIVE roe_list_loop(_, _, _, _, _)
roe_list_loop(roe_values, YEAR, slot, i, roe_list) ==
    IF i >= 5 THEN [list |-> roe_list]
    ELSE IF str(YEAR - i) \notin DOMAIN roe_values
         THEN roe_list_loop(roe_values, YEAR, slot, i + 1, roe_list)
    ELSE LET kf_roe == roe_values[str(YEAR - i)][slot]
         IN IF kf_roe = None THEN TypeError
            ELSE IF kf_roe = NaN
                 THEN roe_list_loop(roe_values, YEAR, slot, i + 1, roe_list)
            ELSE roe_list_loop(roe_values, YEAR, slot, i + 1, Append(roe_list, kf_roe.some))

\* roe_distrub(YEAR, stock_info): (success, roe_list), or the exception.
roe_distrub(YEAR, this_year, history_roe) ==
    LET collected ==
            IF YEAR < this_year
            THEN (IF history_roe = None THEN AttributeError
                  ELSE roe_list_loop(history_roe.dict, YEAR, 2, 0, << >>))
            ELSE [list |-> << >>]
    IN IF Failure(collected) THEN collected
       ELSE LET roe_list == collected.list
            IN IF Len(roe_list) < 3 THEN [success |-> FALSE, roe_list |-> << >>]
               ELSE IF MeanBelow(roe_list, 10) THEN [success |-> FALSE, roe_list |-> roe_list]
               ELSE IF StdAbove(roe_list, 2) THEN [success |-> FALSE, roe_list |-> roe_list]
               ELSE [success |-> TRUE, roe_list |-> roe_list]

InitRoeCheck ==
    /\ StoreInit
    /\ disk = [k \in Keys |-> Absent]
    /\ env \in [YEAR : {2023}, this_year : ClockYears,
                history_roe : {None} \cup {Dict(pr) : pr \in StoredProfiles}]
    /\ prev = NoCall
    /\ last = NoCall

\* success, roelist = self.roe_distrub(YEAR, stock_info).
RoeDistrub ==
    /\ last' = [op |-> "roe_distrub",
                ret |-> roe_distrub(env.YEAR, env.this_year, env.history_roe)]
    /\ UNCHANGED <<data_cache, fetched_symbols, disk, fetches, env, prev>>

NextRoeCheck == RoeDistrub

SpecRoeCheck == InitRoeCheck /\ [][NextRoeCheck]_vars

(***************************************************************************)
(* C17: for an evaluation year before the current year and a stored        *)
(* profile, roe_distrub does not fault and passes exactly when the values  *)
(* in the full-year (Q4) slots of the 5 years ending at the evaluation     *)
(* year, years without data skipped, are at least 3 with mean >= 10 and    *)
(* population standard deviation <= 2.                                     *)
(***************************************************************************)
RECURSIVE C17_FullYearValues(_)
C17_FullYearValues(i) ==
    IF i >= 5 THEN << >>
    ELSE LET y == str(env.YEAR - i)
             has == /\ y \in DOMAIN env.history_roe.dict
                    /\ env.history_roe.dict[y][4] # None
                    /\ env.history_roe.dict[y][4] # NaN
         IN (IF has THEN << env.history_roe.dict[y][4].some >> ELSE << >>)
               \o C17_FullYearValues(i + 1)

C17_FullYearSlotChecked ==
    (/\ last.op = "roe_distrub"
     /\ env.YEAR < env.this_year
     /\ env.history_roe # None)
        => /\ ~Failure(last.ret)
           /\ last.ret.success
                <=> /\ Len(C17_FullYearValues(0)) >= 3
                    /\ ~MeanBelow(C17_FullYearValues(0), 10)
                    /\ ~StdAbove(C17_FullYearValues(0), 2)

(***************************************************************************)
(* Screening: StockAnalyzer.find_good_stocks, the part before its first    *)
(* return statement that is always reached (lines 156-170; the code after  *)
(* it is never run).  env holds the evaluation year, the clock year and    *)
(* the stock_info read: historical PE and stored ROE profile.              *)
(***************************************************************************)
ScreenRows ==
    {<<None, q2, None, Some(12)>> : q2 \in {None, Some(6), Some(10)}}
ScreenProfiles == UNION {[{str(y) : y \in Y} -> ScreenRows] : Y \in SUBSET (2021..2023)}

\* Lines 156-170 without the percentile test.
find_good_stocks_roe_only(YEAR, this_year, historical_pe, history_roe) ==
    LET d == roe_distrub(YEAR, this_year, history_roe)
    IN IF Failure(d) THEN d ELSE [value |-> d.success]

\* find_good_stocks(YEAR, stock_info): the boolean returned, or the
\* exception roe_distrub raises.
find_good_stocks(YEAR, this_year, historical_pe, history_roe) ==
    LET r == cal_pe(YEAR, historical_pe)
    IN IF Greater(r, Frac(30)) THEN [value |-> FALSE]
       ELSE LET d == roe_distrub(YEAR, this_year, history_roe)
            IN IF Failure(d) THEN d ELSE [value |-> d.success]

InitScreen ==
    /\ StoreInit
    /\ disk = [k \in Keys |-> Absent]
    /\ env \in [YEAR : {2023}, this_year : ClockYears, historical_pe : PEHistories,
                history_roe : {None} \cup {Dict(pr) : pr \in ScreenProfiles}]
    /\ prev = NoCall
    /\ last = NoCall

\* if self.find_good_stocks(year, stock_info).
FindGoodStocks ==
    /\ last' = [op |-> "find_good_stocks",
                ret |-> find_good_stocks(env.YEAR, env.this_year, env.historical_pe,
                                         env.history_roe)]
    /\ UNCHANGED <<data_cache, fetched_symbols, disk, fetches, env, prev>>

NextScreen == FindGoodStocks

SpecScreen == InitScreen /\ [][NextScreen]_vars

C18_PercentileOk == ~Greater(cal_pe(env.YEAR, env.historical_pe), Frac(30))
C18_RoeCheck == roe_distrub(env.YEAR, env.this_year, env.history_roe)

KeyError == [raised |-> "KeyError"]
Fault_(v) == v \in {KeyError, ZeroDivisionError, TypeError}

ProfitClock == 2025
EntryYears == 2022..2025
PriceYears == 2022..2025
StoredPrices == {None, Some(0), Some(100), Some(121), Some(144)}
PriceHistories == UNION {[{str(y) : y \in Y} -> StoredPrices] : Y \in SUBSET PriceYears}

\* math.sqrt of a fraction of squares.
ISqrt(n) == CHOOSE k \in 0..n : k * k = n
Sqrt(q) == [num |-> ISqrt(q.num), den |-> ISqrt(q.den)]

\* (a - 1) * 100 and a * 100 for a fraction a.
Times100(a) == Div(Frac(a.num * 100), Frac(a.den), FALSE)
Minus1(a) == [num |-> a.num - a.den, den |-> a.den]

\* cal_profit(YEAR, stock_info): (profit, profit2), or the exception raised.
cal_profit(YEAR, this_year, history_price) ==
    IF YEAR >= this_year THEN [profit |-> Some(Frac(0)), profit2 |-> Some(Frac(0))]
    ELSE IF str(YEAR) \notin DOMAIN history_price THEN KeyError
    ELSE IF str(YEAR + 1) \notin DOMAIN history_price THEN KeyError
    ELSE
    LET price == history_price[str(YEAR)]
        next_price == history_price[str(YEAR + 1)]
    IN IF price = None \/ next_price = None
       THEN [profit |-> Some(Frac(0)), profit2 |-> Some(Frac(0))]
       ELSE LET q == Div(Frac(next_price.some - price.some), Frac(price.some), FALSE)
            IN IF q = ZeroDivisionError THEN ZeroDivisionError
               ELSE IF YEAR >= this_year - 1
                    THEN [profit |-> Some(Times100(q)), profit2 |-> None]
               ELSE IF str(YEAR + 2) \notin DOMAIN history_price THEN KeyError
               ELSE LET next_next_price == history_price[str(YEAR + 2)]
                    IN IF next_next_price = None THEN TypeError
                       ELSE [profit |-> Some(Times100(q)),
                             profit2 |-> Some(Times100(Minus1(Sqrt(
                                 Div(Frac(next_next_price.some), Frac(price.some), FALSE)))))]

InitProfit ==
    /\ StoreInit
    /\ disk = [k \in Keys |-> Absent]
    /\ env \in [YEAR : EntryYears, this_year : {ProfitClock}, history_price : PriceHistories]
    /\ prev = NoCall
    /\ last = NoCall

\* p, p2 = self.cal_profit(year, stock_info).
CalProfit ==
    /\ last' = [op |-> "cal_profit",
                ret |-> cal_profit(env.YEAR, env.this_year, env.history_price)]
    /\ UNCHANGED <<data_cache, fetched_symbols, disk, fetches, env, prev>>

NextProfit == CalProfit

SpecProfit == InitProfit /\ [][NextProfit]_vars

\* The price stored for a year: None when the key is absent or the value null.
StoredPrice(y) ==
    IF str(y) \in DOMAIN env.history_price THEN env.history_price[str(y)] ELSE None
Priced(y) == StoredPrice(y) # None /\ StoredPrice(y).some > 0

(***************************************************************************)
(* C19: with positive prices for Y, Y+1 and Y+2 cal_profit returns         *)
(* (price[Y+1] - price[Y]) / price[Y] * 100 and                            *)
(* (sqrt(price[Y+2] / price[Y]) - 1) * 100; when Y is the most recent      *)
(* completed year and has a positive price, it returns without a fault a   *)
(* one-year return and None as the second return.                          *)
(***************************************************************************)
C19_ReturnsComputed ==
    /\ (/\ last.op = "cal_profit"
        /\ env.YEAR < env.this_year - 1
        /\ Priced(env.YEAR) /\ Priced(env.YEAR + 1) /\ Priced(env.YEAR + 2))
          => /\ ~Fault_(last.ret)
             /\ last.ret.profit =
                  Some(Div(Frac((StoredPrice(env.YEAR + 1).some - StoredPrice(env.YEAR).some) * 100),
                           Frac(StoredPrice(env.YEAR).some), FALSE))
             /\ last.ret.profit2 =
                  Some(Times100(Minus1(Sqrt(Div(Frac(StoredPrice(env.YEAR + 2).some),
                                                Frac(StoredPrice(env.YEAR).some), FALSE)))))
    /\ (/\ last.op = "cal_profit"
        /\ env.YEAR = env.this_year - 1
        /\ Priced(env.YEAR))
          => /\ ~Fault_(last.ret)
             /\ last.ret.profit2 = None

(***************************************************************************)
(* C20: cal_profit does not fault, and returns (0, 0) whenever the base    *)
(* price price[Y] is zero, null or absent, and whenever the price of a     *)
(* later year it needs is null or absent.                                  *)
(***************************************************************************)
C20_Needed ==
    IF env.YEAR < env.this_year - 1 THEN {env.YEAR + 1, env.YEAR + 2} ELSE {env.YEAR + 1}

C20_ZeroOrMissingGivesZero ==
    last.op = "cal_profit"
        => /\ ~Fault_(last.ret)
           /\ (\/ StoredPrice(env.YEAR) = None
               \/ StoredPrice(env.YEAR) = Some(0)
               \/ \E y \in C20_Needed : StoredPrice(y) = None)
                => last.ret = [profit |-> Some(Frac(0)), profit2 |-> Some(Frac(0))]

(***************************************************************************)
(* Bounded retries: get_financial_abstract of StockROEAnalyzer             *)
(* (stock_roe_analyzer_demo.py) and of FinancialAbstractCollector          *)
(* (financial_abstract_collector.py), and their callers.                   *)
(***************************************************************************)

\* max_retries=3 is the default of both constructors; runs use 1..MaxRetries.
MaxRetries == 3

\* What one call of ak.stock_financial_abstract does: it raises, returns an
\* empty table, returns a table whose report periods are all older than
\* `years`, or a table of recent periods with 0 or 2 years of ROE below 5.
ProviderResponses == {"fault", "empty", "old", "good", "bad"}

\* _process_financial_data(df, years) of a non-empty table: its own try
\* block skips every column that faults, so it returns a table, empty when
\* no column is recent.
process_financial_data(response) ==
    [empty |-> response = "old", low |-> IF response = "bad" THEN 2 ELSE 0]

\* What each class returns when the attempts are used up: None in
\* StockROEAnalyzer, pd.DataFrame() in FinancialAbstractCollector.
NoData(class) ==
    IF class = "StockROEAnalyzer" THEN None ELSE [empty |-> TRUE, low |-> 0]

\* The loop `for attempt in range(self.max_retries)`; responses[attempt + 1]
\* is what the provider does at that attempt.  Returns the number of provider
\* calls made and the value returned (None when the loop runs out).
RECURSIVE get_financial_abstract(_, _, _, _)
get_financial_abstract(class, max_retries, responses, attempt) ==
    IF attempt >= max_retries THEN [calls |-> attempt, ret |-> None]
    ELSE IF responses[attempt + 1] \in {"fault", "empty"}
         THEN IF attempt < max_retries - 1
              THEN get_financial_abstract(class, max_retries, responses, attempt + 1)
              ELSE [calls |-> attempt + 1, ret |-> NoData(class)]
         ELSE [calls |-> attempt + 1,
               ret |-> process_financial_data(responses[attempt + 1])]

\* analyze_roe: `if df.empty` on the value returned, then the ROE verdict.
analyze_roe(df) ==
    IF df = None THEN AttributeError
    ELSE IF df.empty THEN [status |-> "failed"]
    ELSE IF df.low >= 2 THEN [status |-> "bad"]
    ELSE [status |-> "good"]

\* get_key_financial_indicators: `if df.empty: return {}`, else the indicators.
get_key_financial_indicators(df) ==
    IF df = None THEN AttributeError
    ELSE IF df.empty THEN [indicators |-> 0]
    ELSE [indicators |-> 1]

InitRetry ==
    /\ StoreInit
    /\ disk = [k \in Keys |-> Absent]
    /\ env \in [max_retries : 1..MaxRetries,
                responses : [1..MaxRetries -> ProviderResponses]]
    /\ prev = NoCall
    /\ last = NoCall

\* One symbol of batch_analyze_stocks: result = self.analyze_roe(...), and
\* what self.results[stock_code] holds afterwards (the except branch stores
\* a failed entry).
AnalyzeRoe ==
    LET got == get_financial_abstract("StockROEAnalyzer", env.max_retries, env.responses, 0)
        result == analyze_roe(got.ret)
    IN /\ last' = [op |-> "analyze_roe", calls |-> got.calls, df |-> got.ret,
                   ret |-> result,
                   results |-> IF result = AttributeError
                               THEN [status |-> "failed"] ELSE result]
       /\ UNCHANGED <<data_cache, fetched_symbols, disk, fetches, env, prev>>

\* collector.get_key_financial_indicators(stock_code).
GetKeyFinancialIndicators ==
    LET got == get_financial_abstract("FinancialAbstractCollector",
                                      env.max_retries, env.responses, 0)
    IN /\ last' = [op |-> "get_key_financial_indicators", calls |-> got.calls,
                   df |-> got.ret, ret |-> get_key_financial_indicators(got.ret)]
       /\ UNCHANGED <<data_cache, fetched_symbols, disk, fetches, env, prev>>

NextRetry == AnalyzeRoe \/ GetKeyFinancialIndicators

SpecRetry == InitRetry /\ [][NextRetry]_vars

\* The attempts the loop can make, and the first of them that has data.
Attempts == 1..env.max_retries
NoAttemptHasData == \A a \in Attempts : env.responses[a] \in {"fault", "empty"}
FirstWithData ==
    CHOOSE a \in Attempts :
        /\ env.responses[a] \notin {"fault", "empty"}
        /\ \A b \in 1..(a - 1) : env.responses[b] \in {"fault", "empty"}

(***************************************************************************)
(* C21: get_financial_abstract calls the provider at most max_retries      *)
(* times and stops at the first response that has data; when every attempt *)
(* faults or comes back empty the caller gets a no-data value it can       *)
(* handle: analyze_roe returns the failed record and                       *)
(* get_key_financial_indicators returns {} without raising.                *)
(***************************************************************************)
C21_BoundedRetriesThenNoData ==
    last.op \in {"analyze_roe", "get_key_financial_indicators"}
        => /\ last.calls <= env.max_retries
           /\ ~NoAttemptHasData => last.calls = FirstWithData
           /\ NoAttemptHasData
                => /\ last.calls = env.max_retries
                   /\ last.ret # AttributeError
                   /\ last.op = "analyze_roe" => last.ret = [status |-> "failed"]

(***************************************************************************)
(* A screening run: StockAnalyzer.analyze_all_stocks over the checkpoint   *)
(* document, a dict from stock code to stock_info in file order, as the    *)
(* list of its items.  The clock year is ProfitClock.                      *)
(***************************************************************************)

\* The most symbols of one checkpoint document.
MaxStocks == 2

\* The evaluation year of the run.
RunYear == 2022

\* pe_analysis.historical_pe of a symbol: no year at all, four years with
\* the evaluation year's PE the lowest, and the same with a negative PE in
\* the evaluation year.
RunPEs ==
    { << >>,
      << <<str(2019), 30>>, <<str(2020), 30>>, <<str(2021), 20>>, <<str(2022), 10>> >>,
      << <<str(2019), 30>>, <<str(2020), 30>>, <<str(2021), 20>>, <<str(2022), -10>> >> }

\* roe_details.history_roe of a symbol: the key missing, one year only,
\* three steady years, and three years with a null slot in the middle one.
RunRoes ==
    { None,
      Dict([y \in {str(2022)} |-> <<None, Some(12), None, Some(12)>>]),
      Dict([y \in {str(2020), str(2021), str(2022)} |-> <<None, Some(12), None, Some(12)>>]),
      Dict([y \in {str(2020), str(2021), str(2022)} |->
               IF y = str(2021) THEN <<None, None, None, Some(12)>>
               ELSE <<None, Some(12), None, Some(12)>>]) }

\* history_price_hfq of a symbol: the three years the returns need, the
\* evaluation year only, and a null price for the evaluation year.
RunPrices ==
    { [y \in {str(2022), str(2023), str(2024)} |->
          IF y = str(2022) THEN Some(100) ELSE IF y = str(2023) THEN Some(121) ELSE Some(144)],
      [y \in {str(2022)} |-> Some(100)],
      [y \in {str(2022), str(2023), str(2024)} |->
          IF y = str(2022) THEN None ELSE Some(121)] }

StockInfos == [historical_pe : RunPEs, history_roe : RunRoes, history_price : RunPrices]

Documents == UNION {[1..n -> StockInfos] : n \in 0..MaxStocks}

\* Lines 243-272: the loop over stock_data.items() from item i on.  Returns
\* analysis_results as the list of <<position, (profit, profit2)>> of the
\* symbols that pass, or the exception that leaves the loop.
RECURSIVE analyze_all_stocks_loop(_, _, _, _, _)
analyze_all_stocks_loop(year, this_year, stock_data, i, analysis_results) ==
    IF i > Len(stock_data) THEN [results |-> analysis_results, visited |-> i - 1]
    ELSE LET stock_info == stock_data[i]
             good == find_good_stocks(year, this_year, stock_info.historical_pe,
                                      stock_info.history_roe)
         IN IF Failure(good) THEN [raised |-> good.raised, visited |-> i]
            ELSE IF ~good.value
                 THEN analyze_all_stocks_loop(year, this_year, stock_data, i + 1,
                                              analysis_results)
            ELSE LET p == cal_profit(year, this_year, stock_info.history_price)
                 IN IF Fault_(p) THEN [raised |-> p.raised, visited |-> i]
                    ELSE analyze_all_stocks_loop(year, this_year, stock_data, i + 1,
                                                 Append(analysis_results, <<i, p>>))

\* analyze_all_stocks(year): {} for an empty document, else the loop.
analyze_all_stocks(year, this_year, stock_data) ==
    IF Len(stock_data) = 0 THEN [results |-> << >>, visited |-> 0]
    ELSE analyze_all_stocks_loop(year, this_year, stock_data, 1, << >>)

InitRun ==
    /\ StoreInit
    /\ disk = [k \in Keys |-> Absent]
    /\ env \in [year : {RunYear}, this_year : {ProfitClock}, stock_data : Documents]
    /\ prev = NoCall
    /\ last = NoCall

\* analysis_results = self.analyze_all_stocks(year).
AnalyzeAllStocks ==
    /\ last' = [op |-> "analyze_all_stocks",
                ret |-> analyze_all_stocks(env.year, env.this_year, env.stock_data)]
    /\ UNCHANGED <<data_cache, fetched_symbols, disk, fetches, env, prev>>

NextRun == AnalyzeAllStocks

SpecRun == InitRun /\ [][NextRun]_vars

(***************************************************************************)
(* C22: a screening run raises nothing and reaches the last symbol of the  *)
(* document, whatever years, PE values, ROE slots or prices are missing    *)
(* or null in the entries: every symbol is visited and is either in the    *)
(* results (pass) or not (fail).                                           *)
(***************************************************************************)
C22_EverySymbolClassified ==
    last.op = "analyze_all_stocks"
        => /\ "raised" \notin DOMAIN last.ret
           /\ last.ret.visited = Len(env.stock_data)

(***************************************************************************)
(* The checkpoint document: CustomJSONEncoder, _save_results and           *)
(* _load_results of StockDataCollector.  A number is its type and its      *)
(* value in thousandths; the file holds JSON numbers; json.load gives      *)
(* int and float.  No value below is a rounding tie.                       *)
(***************************************************************************)
FloatTypes == {"float", "np.float64", "np.float32"}
IntTypes == {"int", "np.int64"}
SavedNumbers ==
    [type : FloatTypes, n : {12344, 12346, 12350, -7004}] \cup [type : IntTypes, n : {12000}]

\* round(obj, 2) of a value that is no tie.
Round2(n) == ((n + 5) \div 10) * 10

\* CustomJSONEncoder.default(obj): called by json only for objects it cannot
\* write itself, which float, int and np.float64 (a subclass of float) are
\* not.
default(obj) ==
    IF obj.type \in {"np.int64", "int"} THEN [type |-> "int", n |-> obj.n]
    ELSE [type |-> "float", n |-> Round2(obj.n)]

\* The JSON number json.dump writes for one value: float.__repr__ of a
\* float (and of its subclasses), the digits of an int, and the encoding of
\* default(obj) for the other types.
encode_number(obj) ==
    IF obj.type \in {"float", "np.float64"} THEN [json |-> "real", n |-> obj.n]
    ELSE IF obj.type = "int" THEN [json |-> "integer", n |-> obj.n]
    ELSE LET o == default(obj)
         IN [json |-> IF o.type = "int" THEN "integer" ELSE "real", n |-> o.n]

\* CustomJSONEncoder.iterencode(o): rounds o when o itself is a float, which
\* the results dict is not, then encodes every member.
iterencode(o) ==
    [field \in DOMAIN o |-> [key \in DOMAIN o[field] |-> encode_number(o[field][key])]]

\* json.load of the file written.
json_load(file) ==
    [field \in DOMAIN file |->
        [key \in DOMAIN file[field] |->
            [type |-> IF file[field][key].json = "integer" THEN "int" ELSE "float",
             n |-> file[field][key].n]]]

SavedMappings(Y) == UNION {[{str(y) : y \in S} -> SavedNumbers] : S \in SUBSET Y}

InitSave ==
    /\ StoreInit
    /\ disk = [k \in Keys |-> Absent]
    /\ env \in [results : [historical_pe : SavedMappings({2022, 2023}),
                           historical_peg : SavedMappings({2023})]]
    /\ prev = NoCall
    /\ last = NoCall

\* self._save_results(): json.dump(self.results, f, cls=CustomJSONEncoder).
SaveResults ==
    /\ last.op = "none"
    /\ last' = [op |-> "_save_results", file |-> iterencode(env.results)]
    /\ UNCHANGED <<data_cache, fetched_symbols, disk, fetches, env, prev>>

\* self.results = self._load_results() of the next run.
LoadResults ==
    /\ last.op = "_save_results"
    /\ prev' = last
    /\ last' = [op |-> "_load_results", ret |-> json_load(last.file)]
    /\ UNCHANGED <<data_cache, fetched_symbols, disk, fetches, env>>

NextSave == SaveResults \/ LoadResults

SpecSave == InitSave /\ [][NextSave]_vars

(***************************************************************************)
(* C23: after _save_results and _load_results, historical_pe and           *)
(* historical_peg have the same year keys as before, and each value is the *)
(* original rounded to 2 decimals, whatever its numeric type was.          *)
(***************************************************************************)
C23_RoundTripRoundsUniformly ==
    last.op = "_load_results"
        => \A field \in {"historical_pe", "historical_peg"} :
              /\ DOMAIN last.ret[field] = DOMAIN env.results[field]
              /\ \A key \in DOMAIN env.results[field] :
                    last.ret[field][key].n = Round2(env.results[field][key].n)

(***************************************************************************)
(* cal_pe on one history stored in different forms.  The sorted form with  *)
(* year keys is what analyze_stock saves; get_historical_pe_ratios of      *)
(* pe_ratio_collector keeps the report date as the key and the order of    *)
(* the EPS series; update_single_stock2 adds a year found later at the end *)
(* under its report date.                                                  *)
(***************************************************************************)
StoredForms == {"reversed", "date_keys", "backfilled"}

DateKey(item) == << item[1] \o <<"1", "2", "3", "1">>, item[2] >>

\* The items of the same year-to-PE content in another stored form.
StoredAs(items, form) ==
    IF form = "reversed" THEN Reverse(items)
    ELSE IF form = "date_keys" THEN [i \in 1..Len(items) |-> DateKey(items[i])]
    ELSE IF items = << >> THEN items
    ELSE Tail(items) \o << DateKey(Head(items)) >>

InitCalPEForms ==
    /\ StoreInit
    /\ disk = [k \in Keys |-> Absent]
    /\ env \in [YEAR : EvalYears, historical_pe : PEHistories, form : StoredForms]
    /\ prev = NoCall
    /\ last = NoCall

\* self.cal_pe(YEAR, pe_data) on the sorted history and on the same history
\* in the form env.form.
CalPEForms ==
    /\ last' = [op |-> "cal_pe",
                ret |-> cal_pe(env.YEAR, env.historical_pe),
                other |-> cal_pe(env.YEAR, StoredAs(env.historical_pe, env.form))]
    /\ UNCHANGED <<data_cache, fetched_symbols, disk, fetches, env, prev>>

NextCalPEForms == CalPEForms

SpecCalPEForms == InitCalPEForms /\ [][NextCalPEForms]_vars

\* The year-to-PE content of a history.
ContentOf(items) == {<<YearOf(items[i][1]), items[i][2]>> : i \in 1..Len(items)}

(***************************************************************************)
(* C24: two histories with the same year-to-PE content give the same       *)
(* percentile, whatever the order of their years and the format of their   *)
(* keys.                                                                   *)
(***************************************************************************)
C24_SameContentSamePercentile ==
    (/\ last.op = "cal_pe"
     /\ ContentOf(StoredAs(env.historical_pe, env.form)) = ContentOf(env.historical_pe))
        => last.other = last.ret

(***************************************************************************)
(* Dynamic PE for a latest period of any month.  The series hold one       *)
(* period of 2024, its day the last of the month.                          *)
(***************************************************************************)
EpsMonths == 1..12
MonthlyEpsSeries ==
    {<< <<DateStr(2024, m, DaysInMonth(2024, m)), eps>> >> : m \in EpsMonths, eps \in EpsValues}

InitDynamicPE ==
    /\ StoreInit
    /\ disk = [k \in Keys |-> Absent]
    /\ env \in [now_year : NowYears, hist_eps : MonthlyEpsSeries,
                current_price : PriceArgs, numpy : BOOLEAN]
    /\ prev = NoCall
    /\ last = NoCall

SpecDynamicPE == InitDynamicPE /\ [][NextPE]_vars

\* The month and the quarter of the latest period, and its EPS.
C25_Month == int(MonthOf(env.hist_eps[1][1]))
C25_Quarter == get_quarter_from_date(env.hist_eps[1][1])
C25_Eps == env.hist_eps[1][2]
C25_Computed == last.op = "get_current_pe_ratio" /\ last.ret # None

(***************************************************************************)
(* C25 as claimed: for every month of the latest period the dynamic PE is  *)
(* current_price / (eps * 12 / (q * 3)), q the quarter of the month.       *)
(***************************************************************************)
C25_DynamicByQuarter ==
    C25_Computed
        => last.ret.dynamic =
             Quot(env.current_price.some * C25_Quarter * 3, C25_Eps * 12, env.numpy)

(***************************************************************************)
(* C25 amended: the dynamic PE is current_price / (eps * 12 / month), with *)
(* month the month of the latest period; it is the quarter formula when    *)
(* the month ends a quarter (3, 6, 9, 12).                                 *)
(***************************************************************************)
C25_DynamicByMonth ==
    C25_Computed
        => /\ last.ret.dynamic =
                Quot(env.current_price.some * C25_Month, C25_Eps * 12, env.numpy)
           /\ C25_Month \in {3, 6, 9, 12}
                => last.ret.dynamic =
                     Quot(env.current_price.some * C25_Quarter * 3, C25_Eps * 12, env.numpy)

\* A latest period of May: price 2, EPS 1, dynamic PE 2 / (12 / 5) = 5/6,
\* where the quarter formula gives 2 / (12 / 6) = 1.
C25_Witness ==
    /\ C25_Computed
    /\ C25_Month = 5
    /\ C25_Quarter = 2
    /\ env.current_price = Some(2)
    /\ C25_Eps = 1
    /\ last.ret.dynamic = [num |-> 5, den |-> 6]

(***************************************************************************)
(* A resumable batch: batch_analyze_stocks of StockROEAnalyzer and of      *)
(* StockDataCollector over the stock list 1..MaxStocks (the symbol at      *)
(* position i has index i - 1).  disk holds the results file and the       *)
(* progress file; last holds the running process: where it is, its         *)
(* self.results (the keys), its local analyzed_stocks, its self.progress   *)
(* and the symbols still to analyze; prev counts the terminations.         *)
(***************************************************************************)

\* The most terminations of one batch.
MaxKills == 2

BatchClasses == {"StockROEAnalyzer", "StockDataCollector"}

\* A file that was opened with 'w' and not written to its end.
Truncated == [truncated |-> TRUE]

\* _load_results and _load_progress: the document, or the default when the
\* file does not exist or json.load raises.
load_file(file, fallback) == IF file \in {Absent, Truncated} THEN fallback ELSE file

NoResults == [keys |-> {}]
NoProgress == [analyzed_stocks |-> {}, last_analyzed_index |-> 0]
Down == [op |-> "down"]

\* Lines 306-313: the symbols from last_index on that are not analyzed.
stocks_to_analyze(progress) ==
    SelectSeq([i \in 1..MaxStocks |-> i],
              LAMBDA i : i - 1 >= progress.last_analyzed_index
                         /\ i \notin progress.analyzed_stocks)

InitBatch ==
    /\ StoreInit
    /\ disk = [results |-> Absent, progress |-> Absent]
    /\ env \in [class : BatchClasses]
    /\ prev = [op |-> "terminated", times |-> 0]
    /\ last = Down

\* The constructor and the head of batch_analyze_stocks, up to the loop.
StartBatch ==
    /\ last.op = "down"
    /\ LET progress == load_file(disk.progress, NoProgress)
       IN last' = [op |-> "loop",
                   results |-> load_file(disk.results, NoResults).keys,
                   analyzed_stocks |-> progress.analyzed_stocks,
                   progress |-> progress,
                   queue |-> stocks_to_analyze(progress)]
    /\ UNCHANGED <<data_cache, fetched_symbols, disk, fetches, env, prev>>

\* The loop body up to the two saves: the analysis returns (ok true) or
\* raises; StockDataCollector first skips a symbol that has a result.
AnalyzeNext ==
    /\ last.op = "loop"
    /\ last.queue # << >>
    /\ LET stock_code == Head(last.queue)
       IN IF env.class = "StockDataCollector" /\ stock_code \in last.results
          THEN last' = [last EXCEPT !.queue = Tail(@)]
          ELSE \E ok \in BOOLEAN :
                 last' = [last EXCEPT
                            !.op = "save_results",
                            !.results = @ \cup {stock_code},
                            !.analyzed_stocks = @ \cup {stock_code},
                            !.progress =
                               IF ok THEN [analyzed_stocks |->
                                              last.analyzed_stocks \cup {stock_code},
                                           last_analyzed_index |-> stock_code - 1]
                               ELSE @]
    /\ UNCHANGED <<data_cache, fetched_symbols, disk, fetches, env, prev>>

\* self._save_results() run to its end.
WriteResults ==
    /\ last.op = "save_results"
    /\ disk' = [disk EXCEPT !.results = [keys |-> last.results]]
    /\ last' = [last EXCEPT !.op = "save_progress"]
    /\ UNCHANGED <<data_cache, fetched_symbols, fetches, env, prev>>

\* self._save_progress() run to its end, and on to the next symbol.
WriteProgress ==
    /\ last.op = "save_progress"
    /\ disk' = [disk EXCEPT !.progress = last.progress]
    /\ last' = [last EXCEPT !.op = "loop", !.queue = Tail(@)]
    /\ UNCHANGED <<data_cache, fetched_symbols, fetches, env, prev>>

\* The loop ends: batch_analyze_stocks returns.
FinishBatch ==
    /\ last.op = "loop"
    /\ last.queue = << >>
    /\ last' = [op |-> "done"]
    /\ UNCHANGED <<data_cache, fetched_symbols, disk, fetches, env, prev>>

\* The process is terminated: between two statements, or inside the write
\* it is in, which leaves that file truncated.
Terminate ==
    /\ last.op \in {"loop", "save_results", "save_progress"}
    /\ prev.times < MaxKills
    /\ prev' = [prev EXCEPT !.times = @ + 1]
    /\ last' = Down
    /\ \/ UNCHANGED disk
       \/ /\ last.op = "save_results"
          /\ disk' = [disk EXCEPT !.results = Truncated]
       \/ /\ last.op = "save_progress"
          /\ disk' = [disk EXCEPT !.progress = Truncated]
    /\ UNCHANGED <<data_cache, fetched_symbols, fetches, env>>

NextBatch ==
    \/ StartBatch
    \/ AnalyzeNext
    \/ WriteResults
    \/ WriteProgress
    \/ FinishBatch
    \/ Terminate

SpecBatch == InitBatch /\ [][NextBatch]_vars

\* What the two documents say when they are read.
ResultKeys == load_file(disk.results, NoResults).keys
MarkedAnalyzed == load_file(disk.progress, NoProgress).analyzed_stocks

(***************************************************************************)
(* C26: when the batch has run to its end, after any terminations and      *)
(* restarts, the results document has an entry for every symbol of the     *)
(* list; and whenever no process is running, no symbol is marked analyzed  *)
(* in the progress document while the results document has no entry for    *)
(* it.                                                                     *)
(***************************************************************************)
C26_ResumedBatchCoversList ==
    /\ last.op = "done" => ResultKeys = 1..MaxStocks
    /\ last.op \in {"down", "done"} => MarkedAnalyzed \subseteq ResultKeys

\* rank / count * 100 of the evaluation year, no shortcut.
C27_Plain == Quot(C16_Rank * 100, Cardinality(C16_Positive), FALSE)

ProviderError == [raised |-> "Exception"]

\* _calculate_pe_ratio_manually without its try block: a provider fault and
\* an arithmetic fault leave it.
calculate_pe_ratio_manually_uncaught(provider_fault, hist_eps, current_price, year, numpy) ==
    IF current_price = None THEN None
    ELSE IF provider_fault THEN ProviderError
    ELSE LET r == get_current_pe_ratio(hist_eps, current_price, year, numpy)
         IN IF r = None /\ hist_eps = << >> THEN IndexError
            ELSE IF r = None THEN ZeroDivisionError
            ELSE r

\* _calculate_pe_ratio_manually: everything runs inside `try`, and
\* `except Exception` returns None.
calculate_pe_ratio_manually(provider_fault, hist_eps, current_price, year, numpy) ==
    IF current_price = None THEN None
    ELSE IF provider_fault THEN None
    ELSE get_current_pe_ratio(hist_eps, current_price, year, numpy)

\* Lines 48-82: the loop `for attempt in range(self.max_retries)`, with the
\* outcome of the computation.  Returns the number of computations run, the
\* number of time.sleep(self.retry_delay) calls and the value returned.
RECURSIVE pe_get_current_pe_ratio(_, _, _)
pe_get_current_pe_ratio(max_retries, attempt, computed) ==
    IF attempt >= max_retries THEN [runs |-> attempt, sleeps |-> attempt, ret |-> None]
    ELSE IF "raised" \in DOMAIN computed
         THEN IF attempt < max_retries - 1
              THEN pe_get_current_pe_ratio(max_retries, attempt + 1, computed)
              ELSE [runs |-> attempt + 1, sleeps |-> attempt, ret |-> None]
         ELSE [runs |-> attempt + 1, sleeps |-> attempt, ret |-> computed]

InitPERetry ==
    /\ StoreInit
    /\ disk = [k \in Keys |-> Absent]
    /\ env \in [max_retries : 1..MaxRetries, provider_fault : BOOLEAN,
                now_year : NowYears, hist_eps : MonthlyEpsSeries \cup {<< >>},
                current_price : PriceArgs, numpy : BOOLEAN]
    /\ prev = NoCall
    /\ last = NoCall

\* current_pe = pe_collector.get_current_pe_ratio(stock_code).
PEGetCurrentPE ==
    LET computed == calculate_pe_ratio_manually(env.provider_fault, env.hist_eps,
                                                env.current_price, env.now_year, env.numpy)
        r == pe_get_current_pe_ratio(env.max_retries, 0, computed)
    IN /\ last' = [op |-> "pe_get_current_pe_ratio", runs |-> r.runs,
                   sleeps |-> r.sleeps, ret |-> r.ret]
       /\ UNCHANGED <<data_cache, fetched_symbols, disk, fetches, env, prev>>

NextPERetry == PEGetCurrentPE

SpecPERetry == InitPERetry /\ [][NextPERetry]_vars

\* A fault happens inside the computation: the provider raises, the series
\* is empty, or a divisor is zero.
C28_Faulty ==
    /\ env.current_price # None
    /\ \/ env.provider_fault
       \/ get_current_pe_ratio(env.hist_eps, env.current_price, env.now_year, env.numpy) = None

(***************************************************************************)
(* C28: for every max_retries >= 1 a call of get_current_pe_ratio of       *)
(* PERatioCollector runs the computation once and never sleeps; when a     *)
(* fault happens inside the computation the call returns None.             *)
(***************************************************************************)
C28_ComputedOnceNoRetry ==
    last.op = "pe_get_current_pe_ratio"
        => /\ last.runs = 1
           /\ last.sleeps = 0
           /\ C28_Faulty => last.ret = None

\* Three attempts configured, a zero EPS in the latest period: one run, no
\* sleep, None.
C28_Witness ==
    /\ last.op = "pe_get_current_pe_ratio"
    /\ env.max_retries = MaxRetries
    /\ ~env.provider_fault
    /\ env.hist_eps # << >>
    /\ env.hist_eps[1][2] = 0
    /\ ~env.numpy
    /\ C28_Faulty
    /\ last.runs = 1
    /\ last.sleeps = 0
    /\ last.ret = None

(***************************************************************************)
(* The stock list and the exchange prefix: get_filtered_stock_list and     *)
(* add_stock_prefix of stock_data_collector_demo.py.  A listed row is the  *)
(* first three characters of its code (no test reads further) and whether  *)
(* its name contains ST.                                                   *)
(***************************************************************************)
ValueError == [raised |-> "ValueError"]

CodeDigits == {DigitChars[i] : i \in 1..10}
ListedCodes == {<<a, b, c>> : a \in CodeDigits, b \in CodeDigits, c \in CodeDigits}

\* code.startswith(prefix).
startswith(code, prefix) ==
    Len(prefix) <= Len(code) /\ SubSeq(code, 1, Len(prefix)) = prefix

\* Lines 155-171: the row is kept by every filter.
survives_filter(code, st_name) ==
    /\ ~startswith(code, <<"6", "8">>)
    /\ ~startswith(code, <<"8">>)
    /\ ~startswith(code, <<"9", "2", "0">>)
    /\ ~startswith(code, <<"3", "0">>)
    /\ ~st_name
    /\ ~startswith(code, <<"2", "0", "0">>)
    /\ ~startswith(code, <<"9", "0", "0">>)

\* add_stock_prefix with sz for every code it does not know.
add_stock_prefix_total(code_str) ==
    IF startswith(code_str, <<"6">>) THEN [prefix |-> "sh"]
    ELSE IF startswith(code_str, <<"4">>) \/ startswith(code_str, <<"8">>)
         THEN [prefix |-> "bj"]
    ELSE [prefix |-> "sz"]

\* add_stock_prefix(stock_code): the prefix put before the code, or the
\* ValueError raised.
add_stock_prefix(code_str) ==
    IF startswith(code_str, <<"6">>) THEN [prefix |-> "sh"]
    ELSE IF startswith(code_str, <<"0">>) \/ startswith(code_str, <<"3">>)
         THEN [prefix |-> "sz"]
    ELSE IF startswith(code_str, <<"4">>) \/ startswith(code_str, <<"8">>)
         THEN [prefix |-> "bj"]
    ELSE ValueError

InitListed ==
    /\ StoreInit
    /\ disk = [k \in Keys |-> Absent]
    /\ env \in [code : ListedCodes, st_name : BOOLEAN]
    /\ prev = NoCall
    /\ last = NoCall

\* batch_analyze_stocks on a list of this one row: the row is filtered, and
\* when it is kept analyze_stock starts with add_stock_prefix, outside its
\* try block; a ValueError reaches the except branch of the batch, which
\* records the symbol as failed.
AnalyzeListed ==
    LET listed == survives_filter(env.code, env.st_name)
        prefixed == add_stock_prefix(env.code)
    IN /\ last' = [op |-> "batch_analyze_stocks", listed |-> listed,
                   prefixed |-> IF listed THEN prefixed ELSE None,
                   failed |-> listed /\ prefixed = ValueError]
       /\ UNCHANGED <<data_cache, fetched_symbols, disk, fetches, env, prev>>

NextListed == AnalyzeListed

SpecListed == InitListed /\ [][NextListed]_vars

C29_Listed == last.op = "batch_analyze_stocks" /\ last.listed

(***************************************************************************)
(* C29 as claimed: every code that survives the filter gets a prefix from  *)
(* add_stock_prefix, and is never recorded as failed for its format.       *)
(***************************************************************************)
C29_EverySurvivorPrefixed ==
    C29_Listed => last.prefixed # ValueError /\ ~last.failed

(***************************************************************************)
(* C29 amended: a surviving code gets sh for a leading 6, sz for a leading *)
(* 0 or 3, bj for a leading 4 (no code with a leading 8 survives); a       *)
(* surviving code with a leading 1, 2, 5, 7 or 9 raises ValueError and is  *)
(* recorded as failed.                                                     *)
(***************************************************************************)
C29_SurvivorPrefixedByLeadingDigit ==
    C29_Listed
        => /\ env.code[1] # "8"
           /\ env.code[1] = "6" => last.prefixed = [prefix |-> "sh"]
           /\ env.code[1] \in {"0", "3"} => last.prefixed = [prefix |-> "sz"]
           /\ env.code[1] = "4" => last.prefixed = [prefix |-> "bj"]
           /\ env.code[1] \in {"1", "2", "5", "7", "9"}
                => last.prefixed = ValueError /\ last.failed

\* The code 201... is kept by the filter (only 200 is excluded) and raises.
C29_Witness ==
    /\ C29_Listed
    /\ env.code = <<"2", "0", "1">>
    /\ last.prefixed = ValueError
    /\ last.failed

(***************************************************************************)
(* pe_analysis.py: save_single_stock_update on the file good_stocks.json.  *)
(* disk holds the file: Absent, Truncated, or the document, a dict from    *)
(* stock code to an entry with its pe_analysis and its other fields;       *)
(* env.file is the file before the call.                                   *)
(***************************************************************************)
GoodStockCodes == {"600519", "000001"}
PEAnalysisData == {[current_pe |-> 1], [current_pe |-> 2]}
GoodStockEntries == [pe_analysis : PEAnalysisData \cup {None}, status : {"good", "bad"}]
GoodStockDocuments == UNION {[S -> GoodStockEntries] : S \in SUBSET GoodStockCodes}
GoodStockFiles == {Absent, Truncated} \cup {[doc |-> d] : d \in GoodStockDocuments}

\* What the second open and json.dump do: they succeed, open(..., 'w')
\* raises and leaves the file as it is, or json.dump raises after the file
\* was opened (an I/O error, or a value json cannot write: no encoder class
\* is passed here).
WriteOutcomes == {"ok", "open_raises", "dump_raises"}

\* save_single_stock_update(stock_code, stock_info, pe_analysis_data): the
\* value returned and the file left behind.
save_single_stock_update(file, stock_code, pe_analysis_data, write) ==
    IF file \in {Absent, Truncated} THEN [ret |-> FALSE, file |-> file]
    ELSE LET all_stocks ==
                 IF stock_code \in DOMAIN file.doc
                 THEN [file.doc EXCEPT ![stock_code].pe_analysis = pe_analysis_data]
                 ELSE file.doc
         IN IF write = "open_raises" THEN [ret |-> FALSE, file |-> file]
            ELSE IF write = "dump_raises" THEN [ret |-> FALSE, file |-> Truncated]
            ELSE [ret |-> TRUE, file |-> [doc |-> all_stocks]]

InitGoodStocks ==
    /\ StoreInit
    /\ env \in [file : GoodStockFiles, stock_code : GoodStockCodes,
                pe_analysis_data : PEAnalysisData, write : WriteOutcomes]
    /\ disk = [good_stocks |-> env.file]
    /\ prev = NoCall
    /\ last = NoCall

\* save_single_stock_update(stock_code, stock_info, pe_analysis_data).
SaveSingleStockUpdate ==
    /\ last.op = "none"
    /\ LET r == save_single_stock_update(disk.good_stocks, env.stock_code,
                                         env.pe_analysis_data, env.write)
       IN /\ disk' = [disk EXCEPT !.good_stocks = r.file]
          /\ last' = [op |-> "save_single_stock_update", ret |-> r.ret]
    /\ UNCHANGED <<data_cache, fetched_symbols, fetches, env, prev>>

NextGoodStocks == SaveSingleStockUpdate

SpecGoodStocks == InitGoodStocks /\ [][NextGoodStocks]_vars

\* The call could read the document.
C30_Read == "doc" \in DOMAIN env.file

(***************************************************************************)
(* C30: after save_single_stock_update the document is the one before the  *)
(* call but for the pe_analysis of the given symbol: the other symbols and *)
(* the other fields are as before, nothing changed when the symbol is not  *)
(* in the document; and the function returns False when reading or writing *)
(* fails.                                                                  *)
(***************************************************************************)
C30_OnlyPeAnalysisChanged ==
    last.op = "save_single_stock_update"
        => /\ (~C30_Read \/ env.write # "ok") => last.ret = FALSE
           /\ C30_Read
                => /\ "doc" \in DOMAIN disk.good_stocks
                   /\ DOMAIN disk.good_stocks.doc = DOMAIN env.file.doc
                   /\ \A code \in DOMAIN env.file.doc :
                        /\ disk.good_stocks.doc[code].status = env.file.doc[code].status
                        /\ code # env.stock_code
                             => disk.good_stocks.doc[code] = env.file.doc[code]

====
